---- MODULE Spec2Model ----
(***************************************************************************)
(* Berkshire Hathaway Intelligence: the retrieval tool of the agent        *)
(* (berkshireRetrievalTool), the vector index it queries, and the chat     *)
(* page's turn handling, as state machines.                                *)
(*                                                                         *)
(* The repository holds two copies of the retrieval tool:                  *)
(*   variant "A"  src/src/mastra/index.ts 57-107  (try/catch, default 10)  *)
(*   variant "B"  src/src/mastra/index.ts 116-153 (no try/catch, default 5)*)
(* The model chooses the deployed copy in Init and keeps it.               *)
(***************************************************************************)
EXTENDS Integers, Sequences, FiniteSets, TLC

VARIABLES
    variant,      \* which copy of the tool is deployed: "A" or "B"
    index,        \* the vector index: entries in insertion order
    pcTool,       \* position of execute: idle, embedding, querying, finished
    toolQuery,    \* execute's parameter query
    toolArgTopK,  \* the topK the caller gave (NoTopK when it gave none)
    toolTopK,     \* execute's parameter topK, after inputSchema parsed the input
    embedding,    \* local const embedding (NoVec before the embed call returns)
    indexAnswer,  \* local const results: what pgVector.query answered
    results,      \* the results field of the returned object
    toolOutcome,  \* pending, returned, raised
    failedStep,   \* which awaited call failed in this execute: none, embed, query
    errorLog,     \* number of console.error lines this execute wrote
    calls,        \* the external calls this execute issued, in order
    input,        \* ChatPage state input: the text of the input box
    threadId,     \* ChatPage state threadId (NullThread for null)
    storedThread, \* localStorage item berkshire_thread_id
    uuids,        \* number of ids crypto.randomUUID() has handed out
    messages,     \* useChat's messages, as the page renders them
    isRunning,    \* useChat's isRunning
    turn,         \* the agent's position in the turn in flight
    question,     \* the user message of the turn in flight
    retrieval,    \* how the turn's retrieval ended
    prompt,       \* the prompt Compose built
    answer,       \* the tokens the model has produced in this turn
    outcomes,     \* one record per ended turn, in order
    indexExists,  \* whether the index berkshire_embeddings has been created
    upserts,      \* the pgVector.upsert calls that resolved, in order
    directory,    \* per ingestion run: the files in DOCUMENTS_DIR
    pcIngest,     \* per run: position in the script
    pdfFiles,     \* per run: const pdfFiles
    fileAt,       \* per run: how many files the for loop has taken
    filename,     \* per run: const filename of the file in hand
    year,         \* per run: const year of the file in hand
    docText,      \* per run: const text, what pdf-parse extracted
    chunks,       \* per run: const chunks
    chunkMeta,    \* per run: const metadata, built from the chunks
    embeddings,   \* per run: const embeddings
    totalChunks,  \* per run: let totalChunks
    processedFiles, \* per run: let processedFiles
    error,        \* per run: the error caught last (NoError when none)
    exitCode,     \* per run: the process's exit code once it has exited
    ingestLog,    \* per run: the console lines that matter, in order
    pageVariant,  \* which copy of ChatPage renders: "first" or "second"
    msgText,      \* the text of the assistant message being rendered
    years,        \* const years of the citations block (NotRendered before)
    badges,       \* the citation badges rendered, as their labels' years
    titleCache,   \* localStorage item berkshire_thread_titles
    titleCalls,   \* the generateTitle calls that have settled, in order
    isMounted,    \* let isMounted of the mount effect
    isLoadingHistory, \* ChatPage state isLoadingHistory
    allThreads,   \* ChatPage state allThreads, as thread ids
    serverThreads, \* the threads the memory server holds
    pcLoad,       \* position of loadThread: listing, messages, done
    storedThreadId, \* loadThread's const storedThreadId
    switching,    \* the handleSwitchThread calls awaiting the server
    lastSwitch,   \* what the handleSwitchThread call that settled last was answered
    deleting      \* the handleDeleteThread calls awaiting the server

vars == << variant, index, pcTool, toolQuery, toolArgTopK, toolTopK, embedding,
           indexAnswer, results, toolOutcome, failedStep, errorLog, calls,
           input, threadId, storedThread, uuids, messages, isRunning,
           turn, question, retrieval, prompt, answer, outcomes,
           indexExists, upserts, directory, pcIngest, pdfFiles, fileAt,
           filename, year, docText, chunks, chunkMeta, embeddings,
           totalChunks, processedFiles, error, exitCode, ingestLog,
           pageVariant, msgText, years, badges, titleCache, titleCalls,
           isMounted, isLoadingHistory, allThreads, serverThreads, pcLoad,
           storedThreadId, switching, lastSwitch, deleting >>

toolVars == << pcTool, toolQuery, toolArgTopK, toolTopK, embedding, indexAnswer,
               results, toolOutcome, failedStep, errorLog, calls >>

pageVars == << input, threadId, storedThread, uuids, messages, isRunning >>

turnVars == << turn, question, retrieval, prompt, answer, outcomes >>

retrievalVars == << variant, toolVars, pageVars, turnVars >>

ingestVars == << indexExists, upserts, directory, pcIngest, pdfFiles, fileAt,
                 filename, year, docText, chunks, chunkMeta, embeddings,
                 totalChunks, processedFiles, error, exitCode, ingestLog >>

citeVars == << pageVariant, msgText, years, badges >>

titleVars == << titleCache, titleCalls >>

threadVars == << isMounted, isLoadingHistory, allThreads, serverThreads, pcLoad,
                 storedThreadId, switching, lastSwitch, deleting >>

uiVars == << citeVars, titleVars, threadVars >>

----------------------------------------------------------------------------
\* Bounds of the model.

\* Longest index the model starts from.
MaxIndexLen == 3

\* Largest explicit topK a caller passes (besides the defaults).
MaxTopK == 2

\* Longest text typed into the input box, in characters.
MaxInputLen == 1

\* Number of ids crypto.randomUUID() hands out.
MaxThreads == 2

\* Number of turns submitted from the page.
MaxTurns == 2

\* Longest answer the model streams, in tokens.
MaxAnswerLen == 2

\* Number of ingestion runs working on the same index.
MaxRuns == 2

\* Number of pieces an assistant text is put together from.
MaxPieces == 2

\* Number of generateTitle calls.
MaxTitleCalls == 2

----------------------------------------------------------------------------
\* Program constants.

\* z.number().optional().default(10), variant A.
DefaultTopKA == 10

\* z.number().optional().default(5), variant B.
DefaultTopKB == 5

\* topK: topK || 10, variant A.
FallbackTopK == 10

\* The caller gave no topK (the field is optional).
NoTopK == 0 - 1

\* embedding before the embed call has returned.
NoVec == 0 - 1

\* useState<string | null>(null): the page has no thread id yet.
NullThread == 0

\* JavaScript undefined as the value of an optional chain.
Undefined == "<undefined>"

Variants == {"A", "B"}

----------------------------------------------------------------------------
\* The hosted embedding model and the vector index (external collaborators).

Queries == {"moats", "float", "tiktok"}

\* The embedding endpoint: text -> vector. Vectors are abstracted to 0..2.
Embed(text) ==
    CASE text = "moats" -> 0
      [] text = "float" -> 1
      [] OTHER -> 2

\* Similarity of a query vector and an entry vector, in hundredths
\* (higher = more relevant).
Sim(q, v) ==
    IF q = v THEN 95
    ELSE IF q - v = 1 \/ v - q = 1 THEN 90
    ELSE 70

\* Metadata payloads found in the index. Ingestion stores the chunk text in
\* metadata.text; entries of other writers may lack it or lack metadata.
NoMeta == [kind |-> "undefined"]

MetaFull == [kind |-> "object", text |-> "moats text", year |-> "2020"]

MetaEmptyText == [kind |-> "object", text |-> "", year |-> "2021"]

MetaNoText == [kind |-> "object", year |-> "2022"]

EntrySet ==
    { [vector |-> 0, metadata |-> MetaFull],
      [vector |-> 1, metadata |-> MetaNoText],
      [vector |-> 2, metadata |-> NoMeta],
      [vector |-> 1, metadata |-> MetaEmptyText] }

Indexes == UNION { [1..n -> EntrySet] : n \in 0..MaxIndexLen }

\* Entry i of the index as the index answers it for query vector qv.
Scored(idx, qv, i) ==
    [id |-> i, metadata |-> idx[i].metadata, score |-> Sim(qv, idx[i].vector)]

\* The entry of S that ranks first: highest score, earliest insertion on a tie.
Best(idx, qv, S) ==
    CHOOSE i \in S : \A j \in S :
        \/ Sim(qv, idx[i].vector) > Sim(qv, idx[j].vector)
        \/ Sim(qv, idx[i].vector) = Sim(qv, idx[j].vector) /\ i <= j

RECURSIVE Ranked(_, _, _, _)
Ranked(idx, qv, S, k) ==
    IF k <= 0 \/ S = {} THEN << >>
    ELSE LET b == Best(idx, qv, S)
         IN  << Scored(idx, qv, b) >> \o Ranked(idx, qv, S \ {b}, k - 1)

\* pgVector.query({indexName, queryVector, topK}): the topK nearest entries,
\* by descending score, ties in insertion order; the empty list on no match.
IndexQuery(idx, qv, k) == Ranked(idx, qv, 1..Len(idx), k)

----------------------------------------------------------------------------
\* berkshireRetrievalTool.

\* inputSchema.parse: the optional topK takes the schema's default.
inputSchema(v, argTopK) ==
    IF argTopK = NoTopK
    THEN (IF v = "A" THEN DefaultTopKA ELSE DefaultTopKB)
    ELSE argTopK

\* The topK field of the pgVector.query call: "topK || 10" in A, "topK" in B.
QueryTopK(v, topK) ==
    IF v = "A"
    THEN (IF topK = 0 THEN FallbackTopK ELSE topK)
    ELSE topK

\* (r.metadata as any)?.text
OptionalText(metadata) ==
    IF metadata.kind = "undefined" THEN Undefined
    ELSE IF "text" \in DOMAIN metadata THEN metadata.text
    ELSE Undefined

\* x || ''  on a string or undefined
OrEmpty(x) == IF x = Undefined \/ x = "" THEN "" ELSE x

\* The callback of results.map without the "|| ''" fallback.
FormatResultNoFallback(r) ==
    [text |-> OptionalText(r.metadata),
     metadata |-> r.metadata,
     score |-> r.score]

\* The callback of results.map.
FormatResult(r) ==
    [text |-> OrEmpty(OptionalText(r.metadata)),
     metadata |-> r.metadata,
     score |-> r.score]

\* results.map((r) => ({...}))
FormatResults(rs) == [i \in 1..Len(rs) |-> FormatResult(rs[i])]

EmbedCall(q) == [op |-> "embed", value |-> q, vector |-> NoVec, topK |-> NoTopK]

QueryCall(vec, k) == [op |-> "query", value |-> "", vector |-> vec, topK |-> k]

\* execute is entered with the parsed input and awaits embed(...).
ToolStart(q, argTopK) ==
    /\ pcTool = "idle"
    /\ pcTool' = "embedding"
    /\ toolQuery' = q
    /\ toolArgTopK' = argTopK
    /\ toolTopK' = inputSchema(variant, argTopK)
    /\ embedding' = NoVec
    /\ indexAnswer' = << >>
    /\ results' = << >>
    /\ toolOutcome' = "pending"
    /\ failedStep' = "none"
    /\ errorLog' = 0
    /\ calls' = << EmbedCall(q) >>

\* A catch block that swallows the rejection without logging it.
ToolCatchSilent(step) ==
    /\ failedStep' = step
    /\ pcTool' = "finished"
    /\ results' = << >>
    /\ errorLog' = errorLog
    /\ toolOutcome' = IF variant = "A" THEN "returned" ELSE "raised"

\* An awaited call rejected. A: the catch block logs two lines and returns
\* {results: []}. B: there is no try, the rejection leaves execute.
ToolCatch(step) ==
    /\ failedStep' = step
    /\ pcTool' = "finished"
    /\ results' = << >>
    /\ IF variant = "A"
       THEN /\ errorLog' = errorLog + 2
            /\ toolOutcome' = "returned"
       ELSE /\ errorLog' = errorLog
            /\ toolOutcome' = "raised"

\* embed not awaited: the query is issued before the embedding is bound.
EmbedOkNotAwaited ==
    /\ pcTool = "embedding"
    /\ pcTool' = "querying"
    /\ embedding' = Embed(toolQuery)
    /\ calls' = Append(calls, QueryCall(embedding, QueryTopK(variant, toolTopK)))
    /\ UNCHANGED << uiVars, ingestVars, variant, index, toolQuery, toolArgTopK, toolTopK, indexAnswer,
                    results, toolOutcome, failedStep, errorLog >>
    /\ UNCHANGED << pageVars, turnVars >>

\* embed resolved: the embedding is bound and pgVector.query is awaited.
EmbedOk ==
    /\ pcTool = "embedding"
    /\ pcTool' = "querying"
    /\ embedding' = Embed(toolQuery)
    /\ calls' = Append(calls, QueryCall(embedding', QueryTopK(variant, toolTopK)))
    /\ UNCHANGED << uiVars, ingestVars, variant, index, toolQuery, toolArgTopK, toolTopK, indexAnswer,
                    results, toolOutcome, failedStep, errorLog >>
    /\ UNCHANGED << pageVars, turnVars >>

\* embed rejected (quota, auth, timeout).
EmbedFail ==
    /\ pcTool = "embedding"
    /\ ToolCatch("embed")
    /\ UNCHANGED << uiVars, ingestVars, variant, index, toolQuery, toolArgTopK, toolTopK, embedding,
                    indexAnswer, calls >>
    /\ UNCHANGED << pageVars, turnVars >>

\* A retrieval that also stores the query embedding in the index.
QueryOkPersisting ==
    /\ pcTool = "querying"
    /\ pcTool' = "finished"
    /\ indexAnswer' = IndexQuery(index, calls[2].vector, calls[2].topK)
    /\ results' = FormatResults(indexAnswer')
    /\ toolOutcome' = "returned"
    /\ index' = Append(index, [vector |-> embedding, metadata |-> NoMeta])
    /\ UNCHANGED << uiVars, ingestVars, variant, toolQuery, toolArgTopK, toolTopK, embedding,
                    failedStep, errorLog, calls >>
    /\ UNCHANGED << pageVars, turnVars >>

\* pgVector.query resolved: the answer is mapped and returned.
QueryOk ==
    /\ pcTool = "querying"
    /\ pcTool' = "finished"
    /\ indexAnswer' = IndexQuery(index, calls[2].vector, calls[2].topK)
    /\ results' = FormatResults(indexAnswer')
    /\ toolOutcome' = "returned"
    /\ UNCHANGED << uiVars, ingestVars, variant, index, toolQuery, toolArgTopK, toolTopK, embedding,
                    failedStep, errorLog, calls >>
    /\ UNCHANGED << pageVars, turnVars >>

\* pgVector.query rejected (connectivity, schema).
QueryFail ==
    /\ pcTool = "querying"
    /\ ToolCatch("query")
    /\ UNCHANGED << uiVars, ingestVars, variant, index, toolQuery, toolArgTopK, toolTopK, embedding,
                    indexAnswer, calls >>
    /\ UNCHANGED << pageVars, turnVars >>

TopKArgs == {NoTopK} \cup (0..MaxTopK) \cup {DefaultTopKA}

\* The agent framework calls the tool with an input it chose.
ToolInvoke ==
    /\ turn = "idle"
    /\ \E q \in Queries, k \in TopKArgs : ToolStart(q, k)
    /\ UNCHANGED << uiVars, ingestVars, variant, index, pageVars, turnVars >>

\* The caller has taken the outcome; the tool can be called again.
ToolTaken ==
    /\ turn = "idle"
    /\ pcTool = "finished"
    /\ pcTool' = "idle"
    /\ UNCHANGED << uiVars, ingestVars, variant, index, toolQuery, toolArgTopK, toolTopK, embedding,
                    indexAnswer, results, toolOutcome, failedStep, errorLog, calls >>
    /\ UNCHANGED << pageVars, turnVars >>

\* pgVector.upsert of an ingestion run that is under way while the tool is in
\* use: entries are appended, none is changed.
ConcurrentUpsert ==
    /\ Len(index) < MaxIndexLen
    /\ \E e \in EntrySet : index' = Append(index, e)
    /\ UNCHANGED << uiVars, ingestVars, variant, toolVars, pageVars, turnVars >>


----------------------------------------------------------------------------
\* ChatPage: the input box, the thread id and the submit handler.

Chars == {" ", "m"}

Inputs == UNION { [1..n -> Chars] : n \in 0..MaxInputLen }

RECURSIVE TrimLeft(_)
TrimLeft(s) == IF s # << >> /\ Head(s) = " " THEN TrimLeft(Tail(s)) ELSE s

RECURSIVE TrimRight(_)
TrimRight(s) ==
    IF s # << >> /\ s[Len(s)] = " "
    THEN TrimRight(SubSeq(s, 1, Len(s) - 1))
    ELSE s

\* String.prototype.trim
Trim(s) == TrimRight(TrimLeft(s))

\* onChange={(e) => setInput(e.target.value)}
SetInput ==
    /\ \E text \in Inputs : input' = text
    /\ input' # input
    /\ UNCHANGED << uiVars, ingestVars, variant, index, toolVars, threadId, storedThread, uuids,
                    messages, isRunning, turnVars >>

\* The body of handleNewChat: a fresh id goes to localStorage and to the
\* page, and the chat is emptied. loadThread does the same where it creates
\* a thread.
NewThread ==
    LET newThreadId == uuids + 1
    IN  /\ uuids' = newThreadId
        /\ storedThread' = newThreadId
        /\ threadId' = newThreadId
        /\ messages' = << >>

\* handleNewChat, from the New Chat button of the mounted page.
HandleNewChat ==
    /\ isMounted
    /\ uuids < MaxThreads
    /\ NewThread
    /\ UNCHANGED << uiVars, ingestVars, variant, index, toolVars, input, isRunning, turnVars >>

UserMessage(text) == [role |-> "user", text |-> text]

\* A handleSubmit whose guard does not look at isRunning.
HandleSubmitUnguarded ==
    /\ Len(outcomes) < MaxTurns
    /\ ~ (Trim(input) = << >> \/ threadId = NullThread)
    /\ input' = << >>
    /\ question' = input
    /\ messages' = Append(messages, UserMessage(input))
    /\ isRunning' = TRUE
    /\ turn' = "sending"
    /\ UNCHANGED << uiVars, ingestVars, variant, index, toolVars, threadId,
                    storedThread, uuids, retrieval, prompt, answer, outcomes >>

\* handleSubmit up to its await: the guard, setInput(""), and the call of
\* sendMessage({message, mode: 'stream', threadId}). The hook shows the user
\* message and reports isRunning while the request is in flight.
HandleSubmit ==
    /\ Len(outcomes) < MaxTurns
    /\ ~ (Trim(input) = << >> \/ isRunning \/ threadId = NullThread)
    /\ input' = << >>
    /\ question' = input
    /\ messages' = Append(messages, UserMessage(input))
    /\ isRunning' = TRUE
    /\ turn' = "sending"
    /\ UNCHANGED << uiVars, ingestVars, variant, index, toolVars, threadId, storedThread, uuids,
                    retrieval, prompt, answer, outcomes >>

----------------------------------------------------------------------------
\* One turn of berkshireAgent: Start, Decide, Retrieve, Compose, Generate,
\* Done or Failed. The loop is the agent framework's; the tool it calls in
\* Retrieve is berkshireRetrievalTool above.

Tokens == {"a"}

NoPrompt == [policy |-> "", context |-> << >>, thread |-> NullThread,
             question |-> << >>]

\* What the page shows: the rendered messages and the Thinking indicator.
View(msgs, running) == [messages |-> msgs, isRunning |-> running]

\* A message by which the hook would report a failed call in the chat.
ErrorMessage == [role |-> "assistant", text |-> << "error" >>]

\* The turn is over: the hook's state is msgs and running, and sendMessage
\* has settled (handleSubmit's await ends).
EndTurn(kind, cause, status, msgs, running) ==
    /\ messages' = msgs
    /\ isRunning' = running
    /\ outcomes' = Append(outcomes,
                          [kind |-> kind, cause |-> cause, retrieval |-> status,
                           answer |-> answer, view |-> View(msgs, running)])
    /\ turn' = "idle"
    /\ question' = << >>
    /\ retrieval' = "none"
    /\ prompt' = NoPrompt
    /\ answer' = << >>

\* Failed: the page itself renders nothing for a failure (handleSubmit has no
\* catch and the page reads no error state from the hook), so what shows is
\* what the hook leaves: it may or may not add a message and may or may not
\* clear isRunning.
TurnFailed(cause, status) ==
    \E shown \in BOOLEAN, running \in BOOLEAN :
        EndTurn("failed", cause, status,
                IF shown THEN Append(messages, ErrorMessage) ELSE messages,
                running)

\* The request does not reach the agent, or the model call of Decide fails.
StartFail ==
    /\ turn = "sending"
    /\ \E cause \in {"send", "model"} : TurnFailed(cause, retrieval)
    /\ UNCHANGED << uiVars, ingestVars, variant, index, toolVars, input, threadId, storedThread, uuids >>

AgentQueries == {"moats", "tiktok"}

AgentTopKArgs == {NoTopK, DefaultTopKA}

\* Decide: the agent always retrieves first; the model words the search query
\* and may pass a topK.
Decide ==
    /\ turn = "sending"
    /\ \E q \in AgentQueries, k \in AgentTopKArgs : ToolStart(q, k)
    /\ turn' = "retrieve"
    /\ UNCHANGED << uiVars, ingestVars, variant, index, pageVars, question, retrieval, prompt, answer,
                    outcomes >>

RetrievalStatus ==
    IF toolOutcome = "raised" THEN "raised"
    ELSE IF failedStep # "none" THEN "degraded"
    ELSE IF results = << >> THEN "empty"
    ELSE "found"

\* execute's frame is gone once the agent has taken its outcome.
ToolFrameDropped ==
    /\ pcTool' = "idle"
    /\ toolQuery' = ""
    /\ toolArgTopK' = NoTopK
    /\ toolTopK' = NoTopK
    /\ embedding' = NoVec
    /\ indexAnswer' = << >>
    /\ results' = << >>
    /\ toolOutcome' = "pending"
    /\ failedStep' = "none"
    /\ errorLog' = 0
    /\ calls' = << >>

\* Compose: the tool's result (or nothing, after a raise the framework
\* absorbed) joins the system policy and the question.
ComposeWith(context) ==
    /\ ToolFrameDropped
    /\ retrieval' = RetrievalStatus
    /\ prompt' = [policy |-> "instructions", context |-> context,
                  thread |-> threadId, question |-> question]
    /\ turn' = "generate"
    /\ UNCHANGED << uiVars, ingestVars, variant, index, pageVars, question, answer, outcomes >>

Compose ==
    /\ turn = "retrieve"
    /\ pcTool = "finished"
    /\ toolOutcome = "returned"
    /\ ComposeWith(results)

\* execute raised into the agent: the turn fails ("Return empty results
\* instead of throwing to prevent agent from failing"), or the framework
\* hands the error to the model and the turn goes on without context.
ToolRaised ==
    /\ turn = "retrieve"
    /\ pcTool = "finished"
    /\ toolOutcome = "raised"
    /\ \/ ComposeWith(<< >>)
       \/ /\ ToolFrameDropped
          /\ TurnFailed("tool", RetrievalStatus)
          /\ UNCHANGED << uiVars, ingestVars, variant, index, input, threadId, storedThread, uuids >>

\* The hook's message list after one more streamed token: the token extends
\* the assistant message under way, or opens one.
Streamed(msgs, tok) ==
    IF msgs # << >> /\ msgs[Len(msgs)].role = "assistant" /\ answer # << >>
    THEN [msgs EXCEPT ![Len(msgs)].text = Append(@, tok)]
    ELSE Append(msgs, [role |-> "assistant", text |-> << tok >>])

\* Generate: the model streams a token and the page shows it at once.
GenToken ==
    /\ turn = "generate"
    /\ Len(answer) < MaxAnswerLen
    /\ \E tok \in Tokens :
          /\ answer' = Append(answer, tok)
          /\ messages' = Streamed(messages, tok)
    /\ UNCHANGED << uiVars, ingestVars, variant, index, toolVars, input, threadId, storedThread, uuids,
                    isRunning, turn, question, retrieval, prompt,
                    outcomes >>

\* Done: the stream ended; the answer is final and not empty.
GenFinish ==
    /\ turn = "generate"
    /\ answer # << >>
    /\ EndTurn("done", "none", retrieval, messages, FALSE)
    /\ UNCHANGED << uiVars, ingestVars, variant, index, toolVars, input, threadId, storedThread, uuids >>

\* The model call fails (timeout, rate limit, content policy), before the
\* first token or in mid-stream.
GenFail ==
    /\ turn = "generate"
    /\ TurnFailed("model", retrieval)
    /\ UNCHANGED << uiVars, ingestVars, variant, index, toolVars, input, threadId, storedThread, uuids >>

\* The indexes the turn model starts from: an empty one and a populated one.
SeedIndexes ==
    { << >>,
      << [vector |-> 0, metadata |-> MetaFull],
         [vector |-> 1, metadata |-> MetaNoText] >> }

----------------------------------------------------------------------------
\* Citations of an assistant message (the Sources block of ChatPage).

PageVariants == {"first", "second"}

\* years.slice(0, 5), first page.
MaxBadges == 5

\* The citations block has not been evaluated.
NotRendered == << "<not rendered>" >>

\* Pieces of text the model writes: references to letters and look-alikes.
Ref(a, b, c, d) == << "(", a, b, c, d, ")" >>

Pieces ==
    { Ref("2", "0", "2", "0"), Ref("1", "9", "9", "9"), Ref("2", "1", "2", "0"),
      Ref("2", "0", "x", "0"), << "2", "0", "2", "0" >>,
      << "(", "1", "9", "9", ")" >>, << "x", " " >> }

\* A text that refers to five letters.
FiveYears ==
    Ref("1", "9", "9", "0") \o Ref("1", "9", "9", "1") \o Ref("1", "9", "9", "2")
        \o Ref("1", "9", "9", "0") \o Ref("2", "0", "0", "1")
        \o Ref("2", "0", "0", "2")

RECURSIVE Concat(_)
Concat(ps) == IF ps = << >> THEN << >> ELSE Head(ps) \o Concat(Tail(ps))

\* The assistant texts rendered: up to MaxPieces pieces, alone or behind
\* FiveYears.
Texts ==
    { pre \o Concat(ps) :
        pre \in { << >>, FiveYears },
        ps \in UNION { [1..n -> Pieces] : n \in 0..MaxPieces } }

\* \d
IsDigit(c) == c \in {"0", "1", "2", "3", "4", "5", "6", "7", "8", "9"}

\* /\((19|20)\d{2}\)/ matches t at position i.
MatchesAt(t, i) ==
    /\ i + 5 <= Len(t)
    /\ t[i] = "("
    /\ \/ t[i + 1] = "1" /\ t[i + 2] = "9"
       \/ t[i + 1] = "2" /\ t[i + 2] = "0"
    /\ IsDigit(t[i + 3])
    /\ IsDigit(t[i + 4])
    /\ t[i + 5] = ")"

\* text.match(/\((19|20)\d{2}\)/g) || []: the matches from position i on,
\* left to right; the search goes on behind each match.
RECURSIVE MatchAll(_, _)
MatchAll(t, i) ==
    IF i > Len(t) THEN << >>
    ELSE IF MatchesAt(t, i) THEN << SubSeq(t, i, i + 5) >> \o MatchAll(t, i + 6)
    ELSE MatchAll(t, i + 1)

\* Array.from(new Set(list)): the values in the order they were first added.
RECURSIVE FromSet(_)
FromSet(list) ==
    IF list = << >> THEN << >>
    ELSE LET init == FromSet(SubSeq(list, 1, Len(list) - 1))
             last == list[Len(list)]
         IN  IF \E k \in DOMAIN init : init[k] = last THEN init
             ELSE Append(init, last)

\* year.replace(/[()]/g, '')
StripParens(y) == SelectSeq(y, LAMBDA c : c \notin {"(", ")"})

\* years.slice(0, 5).map(...) on the first page, years.map(...) on the second.
Badges(v, ys) ==
    LET shown == IF v = "first" /\ Len(ys) > MaxBadges
                 THEN SubSeq(ys, 1, MaxBadges) ELSE ys
    IN  [k \in DOMAIN shown |-> StripParens(shown[k])]

\* The citations block of an assistant message is evaluated.
RenderCitations ==
    /\ years = NotRendered
    /\ years' = FromSet(MatchAll(msgText, 1))
    /\ badges' = Badges(pageVariant, years')
    /\ UNCHANGED << retrievalVars, index, ingestVars, pageVariant, msgText,
                    titleVars, threadVars >>

\* The message is rendered again (React re-evaluates the block).
RenderAgain ==
    /\ years # NotRendered
    /\ years' = NotRendered
    /\ badges' = << >>
    /\ UNCHANGED << retrievalVars, index, ingestVars, pageVariant, msgText,
                    titleVars, threadVars >>

----------------------------------------------------------------------------
\* generateTitle and its cache (localStorage item berkshire_thread_titles).

\* userMessage.length > 35, substring(0, 35)
TitleCut == 35

\* title.length > 50
TitleMax == 50

\* The threads titles are generated for.
TitleThreads == {1, 2}

\* cachedTitles[threadIdForTitle] is undefined.
NoCachedTitle == << "<undefined>" >>

\* A string of n letters.
Letters(n) == [i \in 1..n |-> "m"]

\* First user messages of threads: empty, short, of 35 and of 36 characters.
UserMessages == { << >>, Letters(3), Letters(TitleCut), Letters(TitleCut + 1) }

\* What agent.generate resolves with.
Responses ==
    { [kind |-> "object", text |-> << "\"", "T", "\"" >>],
      [kind |-> "object", text |-> << " ", "T", "'" >>],
      [kind |-> "object", text |-> Letters(TitleMax)],
      [kind |-> "object", text |-> Letters(TitleMax + 1)],
      [kind |-> "object", text |-> << " ", " " >>],
      [kind |-> "object", text |-> << >>],
      [kind |-> "string", text |-> << "T", " " >>],
      [kind |-> "null", text |-> << >>] }

\* agent.generate rejects.
Rejected == [kind |-> "rejected", text |-> << >>]

\* .replace(/^["']|["']$/g, '')
StripQuotes(s) ==
    LET quotes == {"\"", "'"}
        s1 == IF s # << >> /\ Head(s) \in quotes THEN Tail(s) ELSE s
    IN  IF s1 # << >> /\ s1[Len(s1)] \in quotes
        THEN SubSeq(s1, 1, Len(s1) - 1) ELSE s1

\* let title = ''; if (response?.text) ... else if (typeof response === 'string') ...
ResponseTitle(response) ==
    IF response.kind = "object" /\ response.text # << >>
    THEN StripQuotes(Trim(response.text))
    ELSE IF response.kind = "string" THEN Trim(response.text)
    ELSE << >>

\* userMessage.length > 35 ? userMessage.substring(0, 35) + '...' : userMessage
Truncated(userMessage) ==
    IF Len(userMessage) > TitleCut
    THEN SubSeq(userMessage, 1, TitleCut) \o << ".", ".", "." >>
    ELSE userMessage

\* A fallback that is taken for empty titles only.
TitleOrFallbackUnbounded(title, userMessage) ==
    IF title = << >> THEN Truncated(userMessage) ELSE title

\* if (!title || title.length > 50) title = <truncated message>
TitleOrFallback(title, userMessage) ==
    IF title = << >> \/ Len(title) > TitleMax THEN Truncated(userMessage) ELSE title

\* One generateTitle call, from its first line to its return.
GenerateTitleCall(userMessage, threadIdForTitle, response) ==
    LET cached == titleCache[threadIdForTitle]
        hit == cached # NoCachedTitle /\ cached # << >>
        title == TitleOrFallback(ResponseTitle(response), userMessage)
        returned == IF hit THEN cached
                    ELSE IF response = Rejected THEN Truncated(userMessage)
                    ELSE title
        written == ~hit /\ response # Rejected
    IN  /\ titleCache' = IF written
                         THEN [titleCache EXCEPT ![threadIdForTitle] = title]
                         ELSE titleCache
        /\ titleCalls' = Append(titleCalls,
               [threadId |-> threadIdForTitle, userMessage |-> userMessage,
                cached |-> cached, agentCalled |-> ~hit,
                response |-> IF hit THEN [kind |-> "none", text |-> << >>] ELSE response,
                returned |-> returned, threw |-> FALSE])

\* generateTitle(userMessage, threadIdForTitle), for any message, thread and
\* outcome of the agent call.
GenerateTitle ==
    /\ Len(titleCalls) < MaxTitleCalls
    /\ \E userMessage \in UserMessages, id \in TitleThreads,
          response \in Responses \cup {Rejected} :
          GenerateTitleCall(userMessage, id, response)
    /\ UNCHANGED << retrievalVars, index, ingestVars, citeVars, threadVars >>

----------------------------------------------------------------------------
\* The ingestion job (ingestDocuments), run by one or two processes against
\* the same index.

Runs == 1..MaxRuns

\* ---- file names and paths ----

\* const DOCUMENTS_DIR, abstracted to a one-letter directory.
DOCUMENTS_DIR == << "d" >>

\* The '.pdf' of endsWith('.pdf') and of path.basename(filePath, '.pdf').
PdfExt == << ".", "p", "d", "f" >>

File23 == << "2", "3", ".", "p", "d", "f" >>

File24 == << "2", "4", ".", "P", "D", "F" >>

File22 == << "2", "2", ".", "p", "d", "f" >>

FileTxt == << "n", ".", "t", "x", "t" >>

\* What fs.readdirSync(DOCUMENTS_DIR) may find.
Directories ==
    { {}, {FileTxt}, {File23}, {File23, File24}, {File22, File24, FileTxt} }

\* What the runs after the first find: they ingest File23 (again).
ReingestedDirectory == {File23}

\* UTF-16 code unit of a character (the order Array.prototype.sort uses).
CodeUnit(c) ==
    CASE c = "." -> 46  [] c = "/" -> 47
      [] c = "2" -> 50  [] c = "3" -> 51  [] c = "4" -> 52
      [] c = "D" -> 68  [] c = "F" -> 70  [] c = "P" -> 80
      [] c = "d" -> 100 [] c = "f" -> 102 [] c = "n" -> 110
      [] c = "p" -> 112 [] c = "t" -> 116 [] c = "x" -> 120
      [] OTHER -> 0

\* String.prototype.toLowerCase
LowerChar(c) ==
    CASE c = "P" -> "p" [] c = "D" -> "d" [] c = "F" -> "f" [] OTHER -> c

ToLowerCase(s) == [i \in DOMAIN s |-> LowerChar(s[i])]

\* String.prototype.endsWith
EndsWith(s, suffix) ==
    /\ Len(s) >= Len(suffix)
    /\ SubSeq(s, Len(s) - Len(suffix) + 1, Len(s)) = suffix

\* path.join(DOCUMENTS_DIR, file)
PathJoin(dir, file) == dir \o << "/" >> \o file

\* path.basename(p): what follows the last separator.
Basename(p) ==
    LET seps == { i \in DOMAIN p : p[i] = "/" }
        last == IF seps = {} THEN 0 ELSE CHOOSE i \in seps : \A j \in seps : j <= i
    IN  SubSeq(p, last + 1, Len(p))

\* path.basename(p, ext): the extension is removed when the base name ends
\* with exactly these characters (the comparison is case-sensitive).
BasenameExt(p, ext) ==
    LET base == Basename(p)
    IN  IF EndsWith(base, ext) /\ Len(base) > Len(ext)
        THEN SubSeq(base, 1, Len(base) - Len(ext))
        ELSE base

\* a < b in the order of Array.prototype.sort (by code units).
RECURSIVE Precedes(_, _)
Precedes(a, b) ==
    IF b = << >> THEN FALSE
    ELSE IF a = << >> THEN TRUE
    ELSE IF CodeUnit(Head(a)) # CodeUnit(Head(b))
         THEN CodeUnit(Head(a)) < CodeUnit(Head(b))
    ELSE Precedes(Tail(a), Tail(b))

RECURSIVE Sorted(_)
Sorted(S) ==
    IF S = {} THEN << >>
    ELSE LET first == CHOOSE a \in S : \A b \in S \ {a} : Precedes(a, b)
         IN  << first >> \o Sorted(S \ {first})

\* A listing that keeps the .pdf files in descending order.
getPdfFilesUnsorted(files) ==
    LET sorted == Sorted({ PathJoin(DOCUMENTS_DIR, file) :
                     file \in { f \in files : EndsWith(ToLowerCase(f), PdfExt) } })
    IN  [i \in DOMAIN sorted |-> sorted[Len(sorted) + 1 - i]]

\* getPdfFiles, for the directory listing files.
getPdfFiles(files) ==
    Sorted({ PathJoin(DOCUMENTS_DIR, file) :
               file \in { f \in files : EndsWith(ToLowerCase(f), PdfExt) } })

\* extractYearFromFilename
extractYearFromFilename(filePath) == BasenameExt(filePath, PdfExt)

\* ---- documents ----

\* data.text of pdf-parse for each file: a sequence of words and blanks.
PdfText(name) ==
    CASE name = File23 -> << "moats", " ", "float" >>
      [] name = File24 -> << " ", "tiktok" >>
      [] name = File22 -> << " ", " " >>
      [] OTHER -> << >>

\* doc.chunk({strategy: 'recursive', ...}): the chunks of a text, in document
\* order (one chunk per word at this scale).
Chunk(t) ==
    LET words == SelectSeq(t, LAMBDA w : w # " ")
    IN  [i \in DOMAIN words |-> [text |-> words[i]]]

\* embedMany({values}): one embedding per value, in input order.
EmbedMany(values) == [i \in DOMAIN values |-> Embed(values[i])]

\* chunks.map(chunk => chunk.text)
ChunkTexts(cs) == [i \in DOMAIN cs |-> cs[i].text]

\* A metadata array built in the reverse order of the chunks.
ChunkMetadataReversed(cs, chunkTexts, name, yr) ==
    [i \in DOMAIN cs |->
        [kind |-> "object", text |-> chunkTexts[Len(cs) + 1 - i], source |-> name,
         year |-> yr, chunkIndex |-> i - 1, totalChunks |-> Len(cs)]]

\* A metadata array that numbers the chunks from 1.
ChunkMetadataOneBased(cs, chunkTexts, name, yr) ==
    [i \in DOMAIN cs |->
        [kind |-> "object", text |-> chunkTexts[i], source |-> name,
         year |-> yr, chunkIndex |-> i, totalChunks |-> Len(cs)]]

\* chunks.map((_, index) => ({text, source, year, chunkIndex, totalChunks}));
\* array positions are 0-based, sequence positions 1-based.
ChunkMetadata(cs, chunkTexts, name, yr) ==
    [i \in DOMAIN cs |->
        [kind |-> "object", text |-> chunkTexts[i], source |-> name,
         year |-> yr, chunkIndex |-> i - 1, totalChunks |-> Len(cs)]]

\* ---- the vector store ----

\* An upsert that first removes the entries stored for the same source.
UpsertReplacingSource(idx, vectors, metas) ==
    SelectSeq(idx, LAMBDA e : ~("source" \in DOMAIN e.metadata
                                  /\ e.metadata.source = metas[1].source))
    \o [i \in DOMAIN vectors |->
           [vector |-> vectors[i], metadata |-> metas[i]]]

\* pgVector.upsert({indexName, vectors, metadata}) without ids: every vector is
\* stored as a new entry with the metadata at its position.
Upsert(idx, vectors, metas) ==
    idx \o [i \in DOMAIN vectors |->
               [vector |-> vectors[i], metadata |-> metas[i]]]

\* The process has not exited.
NoExit == 0 - 1

\* Errors the awaited calls reject with.
NoError == [kind |-> "none"]

ErrorAlreadyExists ==
    [kind |-> "error", message |-> << "relation", "already exists" >>]

ErrorConnection ==
    [kind |-> "error", message |-> << "connection", "refused" >>]

ErrorNoMessage == [kind |-> "error"]

ErrorDocument == [kind |-> "error", message |-> << "bad", "document" >>]

\* error.message?.includes('already exists')
MessageIncludes(e, part) ==
    /\ "message" \in DOMAIN e
    /\ \E i \in DOMAIN e.message : e.message[i] = part

\* ---- steps of ingestDocuments ----

NoLocals(r) ==
    /\ docText' = [docText EXCEPT ![r] = << >>]
    /\ chunks' = [chunks EXCEPT ![r] = << >>]
    /\ chunkMeta' = [chunkMeta EXCEPT ![r] = << >>]
    /\ embeddings' = [embeddings EXCEPT ![r] = << >>]

Log(r, level, what, file) ==
    ingestLog' = [ingestLog EXCEPT
                     ![r] = Append(@, [level |-> level, what |-> what, file |-> file])]

\* process.exit(code), or the script running to its end (code 0).
Exit(r, code) ==
    /\ pcIngest' = [pcIngest EXCEPT ![r] = "exited"]
    /\ exitCode' = [exitCode EXCEPT ![r] = code]

\* if (!DATABASE_URL) / if (!process.env.OPENAI_API_KEY): process.exit(1)
EnvMissing(r) ==
    /\ pcIngest[r] = "start"
    /\ Exit(r, 1)
    /\ Log(r, "error", "env", << >>)
    /\ UNCHANGED << uiVars, retrievalVars, directory, index, indexExists, pdfFiles, fileAt,
                    filename, year, docText, chunks, chunkMeta, embeddings,
                    totalChunks, processedFiles, error, upserts >>

\* Both variables are set: ingestDocuments() is called.
EnvOk(r) ==
    /\ pcIngest[r] = "start"
    /\ pcIngest' = [pcIngest EXCEPT ![r] = "createIndex"]
    /\ UNCHANGED << uiVars, retrievalVars, directory, index, indexExists, pdfFiles, fileAt,
                    filename, year, docText, chunks, chunkMeta, embeddings,
                    totalChunks, processedFiles, error, upserts, exitCode,
                    ingestLog >>

\* await pgVector.createIndex(...) resolves: the index is there afterwards,
\* with the entries it had (none when it was just provisioned).
CreateIndexOk(r) ==
    /\ pcIngest[r] = "createIndex"
    /\ indexExists' = TRUE
    /\ pcIngest' = [pcIngest EXCEPT ![r] = "getPdfFiles"]
    /\ Log(r, "info", "ready", << >>)
    /\ UNCHANGED << uiVars, retrievalVars, directory, index, pdfFiles, fileAt, filename, year,
                    docText, chunks, chunkMeta, embeddings, totalChunks,
                    processedFiles, error, upserts, exitCode >>

\* A catch that takes every rejection of createIndex for 'already exists'.
CreateIndexCatchAll(r, e) ==
    /\ error' = [error EXCEPT ![r] = e]
    /\ pcIngest' = [pcIngest EXCEPT ![r] = "getPdfFiles"]
    /\ Log(r, "info", "exists", << >>)
    /\ UNCHANGED exitCode

\* catch (error) of the createIndex step: continue when the message includes
\* 'already exists', rethrow otherwise; the rethrown error reaches
\* ingestDocuments().catch, which logs it and calls process.exit(1).
CreateIndexCatch(r, e) ==
    /\ error' = [error EXCEPT ![r] = e]
    /\ IF MessageIncludes(e, "already exists")
       THEN /\ pcIngest' = [pcIngest EXCEPT ![r] = "getPdfFiles"]
            /\ Log(r, "info", "exists", << >>)
            /\ UNCHANGED exitCode
       ELSE /\ Exit(r, 1)
            /\ Log(r, "error", "fatal", << >>)

\* createIndex rejects because the index is already there.
CreateIndexExists(r) ==
    /\ pcIngest[r] = "createIndex"
    /\ indexExists
    /\ CreateIndexCatch(r, ErrorAlreadyExists)
    /\ UNCHANGED << uiVars, retrievalVars, directory, index, indexExists, pdfFiles, fileAt,
                    filename, year, docText, chunks, chunkMeta, embeddings,
                    totalChunks, processedFiles, upserts >>

\* createIndex rejects for another reason (the store cannot be reached, or
\* an error without a message).
CreateIndexFail(r) ==
    /\ pcIngest[r] = "createIndex"
    /\ \E e \in {ErrorConnection, ErrorNoMessage} : CreateIndexCatch(r, e)
    /\ UNCHANGED << uiVars, retrievalVars, directory, index, indexExists, pdfFiles, fileAt,
                    filename, year, docText, chunks, chunkMeta, embeddings,
                    totalChunks, processedFiles, upserts >>

\* const pdfFiles = getPdfFiles(); if (pdfFiles.length === 0) process.exit(1)
ListFiles(r) ==
    /\ pcIngest[r] = "getPdfFiles"
    /\ pdfFiles' = [pdfFiles EXCEPT ![r] = getPdfFiles(directory[r])]
    /\ IF Len(pdfFiles'[r]) = 0
       THEN /\ Exit(r, 1)
            /\ Log(r, "error", "no files", << >>)
       ELSE /\ pcIngest' = [pcIngest EXCEPT ![r] = "for"]
            /\ UNCHANGED << exitCode, ingestLog >>
    /\ UNCHANGED << uiVars, retrievalVars, directory, index, indexExists, fileAt, filename, year,
                    docText, chunks, chunkMeta, embeddings, totalChunks,
                    processedFiles, error, upserts >>

\* for (const pdfPath of pdfFiles): the next file, with year and filename.
ForNext(r) ==
    /\ pcIngest[r] = "for"
    /\ fileAt[r] < Len(pdfFiles[r])
    /\ fileAt' = [fileAt EXCEPT ![r] = @ + 1]
    /\ year' = [year EXCEPT ![r] = extractYearFromFilename(pdfFiles[r][fileAt'[r]])]
    /\ filename' = [filename EXCEPT ![r] = Basename(pdfFiles[r][fileAt'[r]])]
    /\ NoLocals(r)
    /\ pcIngest' = [pcIngest EXCEPT ![r] = "extract"]
    /\ UNCHANGED << uiVars, retrievalVars, directory, index, indexExists, pdfFiles, totalChunks,
                    processedFiles, error, upserts, exitCode, ingestLog >>

\* A loop without the try: the error leaves ingestDocuments and ends the run.
FileCatchAbort(r, e, step) ==
    /\ error' = [error EXCEPT ![r] = e]
    /\ Log(r, "error", "fatal", filename[r])
    /\ Exit(r, 1)

\* catch (error) of the loop body: console.error and continue.
FileCatch(r, e, step) ==
    /\ error' = [error EXCEPT ![r] = e]
    /\ Log(r, "error", step, filename[r])
    /\ pcIngest' = [pcIngest EXCEPT ![r] = "for"]
    /\ UNCHANGED exitCode

\* An extraction step that hands every text on to the chunker.
ExtractOkUnchecked(r) ==
    /\ pcIngest[r] = "extract"
    /\ docText' = [docText EXCEPT ![r] = PdfText(filename[r])]
    /\ pcIngest' = [pcIngest EXCEPT ![r] = "chunk"]
    /\ UNCHANGED << uiVars, retrievalVars, directory, index, indexExists, pdfFiles,
                    fileAt, filename, year, chunks, chunkMeta, embeddings,
                    totalChunks, processedFiles, error, upserts, exitCode,
                    ingestLog >>

\* await extractTextFromPdf(pdfPath) resolves; an empty or blank text skips
\* the file.
ExtractOk(r) ==
    /\ pcIngest[r] = "extract"
    /\ docText' = [docText EXCEPT ![r] = PdfText(filename[r])]
    /\ IF Len(Trim(docText'[r])) = 0
       THEN /\ Log(r, "info", "skip", filename[r])
            /\ pcIngest' = [pcIngest EXCEPT ![r] = "for"]
       ELSE /\ pcIngest' = [pcIngest EXCEPT ![r] = "chunk"]
            /\ UNCHANGED ingestLog
    /\ UNCHANGED << uiVars, retrievalVars, directory, index, indexExists, pdfFiles, fileAt,
                    filename, year, chunks, chunkMeta, embeddings, totalChunks,
                    processedFiles, error, upserts, exitCode >>

\* readFileSync or pdfParse throws.
ExtractFail(r) ==
    /\ pcIngest[r] = "extract"
    /\ FileCatch(r, ErrorDocument, "extract")
    /\ UNCHANGED << uiVars, retrievalVars, directory, index, indexExists, pdfFiles, fileAt,
                    filename, year, docText, chunks, chunkMeta, embeddings,
                    totalChunks, processedFiles, upserts >>

\* await doc.chunk(...) resolves; chunkTexts and metadata are prepared
\* unless there is no chunk.
ChunkOk(r) ==
    /\ pcIngest[r] = "chunk"
    /\ \E cs \in {Chunk(docText[r]), << >>} :
          /\ chunks' = [chunks EXCEPT ![r] = cs]
          /\ IF Len(cs) = 0
             THEN /\ Log(r, "info", "skip", filename[r])
                  /\ pcIngest' = [pcIngest EXCEPT ![r] = "for"]
                  /\ UNCHANGED chunkMeta
             ELSE /\ chunkMeta' = [chunkMeta EXCEPT
                        ![r] = ChunkMetadata(cs, ChunkTexts(cs), filename[r], year[r])]
                  /\ pcIngest' = [pcIngest EXCEPT ![r] = "embedMany"]
                  /\ UNCHANGED ingestLog
    /\ UNCHANGED << uiVars, retrievalVars, directory, index, indexExists, pdfFiles, fileAt,
                    filename, year, docText, embeddings, totalChunks,
                    processedFiles, error, upserts, exitCode >>

\* doc.chunk rejects.
ChunkFail(r) ==
    /\ pcIngest[r] = "chunk"
    /\ FileCatch(r, ErrorDocument, "chunk")
    /\ UNCHANGED << uiVars, retrievalVars, directory, index, indexExists, pdfFiles, fileAt,
                    filename, year, docText, chunks, chunkMeta, embeddings,
                    totalChunks, processedFiles, upserts >>

\* const { embeddings } = await embedMany({values: chunkTexts}) resolves.
EmbedManyOk(r) ==
    /\ pcIngest[r] = "embedMany"
    /\ embeddings' = [embeddings EXCEPT ![r] = EmbedMany(ChunkTexts(chunks[r]))]
    /\ pcIngest' = [pcIngest EXCEPT ![r] = "upsert"]
    /\ UNCHANGED << uiVars, retrievalVars, directory, index, indexExists, pdfFiles, fileAt,
                    filename, year, docText, chunks, chunkMeta, totalChunks,
                    processedFiles, error, upserts, exitCode, ingestLog >>

\* An embedding batch that fails after its first value and hands the script
\* the embeddings it has.
EmbedManyFailPartial(r) ==
    /\ pcIngest[r] = "embedMany"
    /\ embeddings' = [embeddings EXCEPT
                         ![r] = SubSeq(EmbedMany(ChunkTexts(chunks[r])), 1, 1)]
    /\ error' = [error EXCEPT ![r] = ErrorDocument]
    /\ Log(r, "error", "embedMany", filename[r])
    /\ pcIngest' = [pcIngest EXCEPT ![r] = "upsert"]
    /\ UNCHANGED << uiVars, retrievalVars, directory, index, indexExists, pdfFiles,
                    fileAt, filename, year, docText, chunks, chunkMeta,
                    totalChunks, processedFiles, upserts, exitCode >>

\* embedMany rejects.
EmbedManyFail(r) ==
    /\ pcIngest[r] = "embedMany"
    /\ FileCatch(r, ErrorDocument, "embedMany")
    /\ UNCHANGED << uiVars, retrievalVars, directory, index, indexExists, pdfFiles, fileAt,
                    filename, year, docText, chunks, chunkMeta, embeddings,
                    totalChunks, processedFiles, upserts >>

\* A loop body that counts one chunk per stored document.
UpsertOkCountingOne(r) ==
    /\ pcIngest[r] = "upsert"
    /\ index' = Upsert(index, embeddings[r], chunkMeta[r])
    /\ upserts' = Append(upserts, [run |-> r, vectors |-> embeddings[r],
                                   metadata |-> chunkMeta[r]])
    /\ totalChunks' = [totalChunks EXCEPT ![r] = @ + 1]
    /\ processedFiles' = [processedFiles EXCEPT ![r] = @ + 1]
    /\ Log(r, "info", "completed", filename[r])
    /\ pcIngest' = [pcIngest EXCEPT ![r] = "for"]
    /\ UNCHANGED << uiVars, retrievalVars, directory, indexExists, pdfFiles, fileAt,
                    filename, year, docText, chunks, chunkMeta, embeddings,
                    error, exitCode >>

\* An upsert whose metadata array is shared by the runs: each position holds
\* what the first run prepared last, where it prepared anything.
UpsertOkSharedBatch(r) ==
    /\ pcIngest[r] = "upsert"
    /\ LET shared == [i \in DOMAIN chunkMeta[r] |->
                         IF i \in DOMAIN chunkMeta[1] THEN chunkMeta[1][i]
                         ELSE chunkMeta[r][i]]
       IN  /\ index' = Upsert(index, embeddings[r], shared)
           /\ upserts' = Append(upserts, [run |-> r, vectors |-> embeddings[r],
                                          metadata |-> shared])
    /\ totalChunks' = [totalChunks EXCEPT ![r] = @ + Len(chunks[r])]
    /\ processedFiles' = [processedFiles EXCEPT ![r] = @ + 1]
    /\ Log(r, "info", "completed", filename[r])
    /\ pcIngest' = [pcIngest EXCEPT ![r] = "for"]
    /\ UNCHANGED << uiVars, retrievalVars, directory, indexExists, pdfFiles, fileAt,
                    filename, year, docText, chunks, chunkMeta, embeddings,
                    error, exitCode >>

\* await pgVector.upsert({vectors: embeddings, metadata}) resolves;
\* totalChunks += chunks.length; processedFiles++.
UpsertOk(r) ==
    /\ pcIngest[r] = "upsert"
    /\ index' = Upsert(index, embeddings[r], chunkMeta[r])
    /\ upserts' = Append(upserts, [run |-> r, vectors |-> embeddings[r],
                                   metadata |-> chunkMeta[r]])
    /\ totalChunks' = [totalChunks EXCEPT ![r] = @ + Len(chunks[r])]
    /\ processedFiles' = [processedFiles EXCEPT ![r] = @ + 1]
    /\ Log(r, "info", "completed", filename[r])
    /\ pcIngest' = [pcIngest EXCEPT ![r] = "for"]
    /\ UNCHANGED << uiVars, retrievalVars, directory, indexExists, pdfFiles, fileAt, filename,
                    year, docText, chunks, chunkMeta, embeddings, error, exitCode >>

\* pgVector.upsert rejects: the store connection is unavailable.
UpsertFail(r) ==
    /\ pcIngest[r] = "upsert"
    /\ FileCatch(r, ErrorConnection, "upsert")
    /\ UNCHANGED << uiVars, retrievalVars, directory, index, indexExists, pdfFiles, fileAt,
                    filename, year, docText, chunks, chunkMeta, embeddings,
                    totalChunks, processedFiles, upserts >>

\* The loop is over: the summary is printed, ingestDocuments resolves and
\* the process ends with code 0.
Summary(r) ==
    /\ pcIngest[r] = "for"
    /\ fileAt[r] = Len(pdfFiles[r])
    /\ Exit(r, 0)
    /\ Log(r, "info", "summary", << >>)
    /\ NoLocals(r)
    /\ UNCHANGED << uiVars, retrievalVars, directory, index, indexExists, pdfFiles, fileAt,
                    filename, year, totalChunks, processedFiles, error,
                    upserts >>

----------------------------------------------------------------------------
\* Threads of ChatPage: loadThread of the mount effect, handleSwitchThread
\* and handleDeleteThread, against the memory server. Each handler is an
\* async function: one action starts it and another settles its await, and
\* anything may happen on the page in between. After the page is unmounted
\* its state setters do nothing; localStorage is still written.

\* The threads the memory server holds when the page is mounted.
ServerThreadIds == {11, 12}

\* localStorage berkshire_thread_id when the page is mounted: nothing, a
\* thread of the server, a thread the server no longer has.
StoredAtMount == {NullThread, 11, 13}

\* The messages the server holds for a thread.
History(id) ==
    IF id = 11
    THEN << UserMessage(<< "m" >>) >>
    ELSE << UserMessage(<< "m" >>), [role |-> "assistant", text |-> << "a" >>] >>

\* A messages property that is not an array.
NotAnArray == << [role |-> "<not an array>", text |-> << >>] >>

\* What client.listThreadMessages(id) resolves with: the thread's messages,
\* an empty list, null, an object without messages, an object whose messages
\* is not an array.
MessagesResponses(id) ==
    { [kind |-> "list", messages |-> History(id)],
      [kind |-> "list", messages |-> << >>],
      [kind |-> "null", messages |-> << >>],
      [kind |-> "nomessages", messages |-> << >>],
      [kind |-> "notarray", messages |-> NotAnArray] }

\* No handleSwitchThread call has settled.
NoSwitch == [kind |-> "none", messages |-> << >>]

\* client.listThreadMessages(id) rejected.
Thrown == [kind |-> "throws", messages |-> << >>]

\* res && res.messages && Array.isArray(res.messages)
LoadPasses(res) == res.kind = "list"

\* res && res.messages
SwitchPasses(res) == res.kind \in {"list", "notarray"}

\* What the thread handlers never touch.
besidesThreads == << citeVars, ingestVars, variant, index, toolVars, input,
                     isRunning, turnVars >>

\* loadThread where it creates a thread (the else branch and the catch
\* block), and its finally: after the cleanup ran it returns at once.
LoadCreatesThread ==
    IF isMounted
    THEN /\ uuids < MaxThreads
         /\ NewThread
         /\ isLoadingHistory' = FALSE
    ELSE UNCHANGED << uuids, storedThread, threadId, messages, isLoadingHistory >>

\* A loadThread that sets the thread list whether or not the page is still
\* mounted.
LoadThreadListedUnguarded ==
    /\ pcLoad = "listing"
    /\ \E validThreads \in {serverThreads, {}} :
          /\ allThreads' = validThreads
          /\ IF storedThreadId # NullThread /\ storedThreadId \in validThreads
             THEN /\ pcLoad' = "messages"
                  /\ UNCHANGED << uuids, storedThread, threadId, messages,
                                  isLoadingHistory >>
             ELSE /\ pcLoad' = "done"
                  /\ LoadCreatesThread
    /\ UNCHANGED << isMounted, serverThreads, storedThreadId, switching, lastSwitch,
                    deleting, titleVars, besidesThreads >>

\* loadThread, listMemoryThreads resolved: the list is shown, and the stored
\* thread is fetched if the server has it; otherwise a new thread is made.
LoadThreadListed ==
    /\ pcLoad = "listing"
    /\ \E validThreads \in {serverThreads, {}} :
          /\ allThreads' = IF isMounted THEN validThreads ELSE allThreads
          /\ IF storedThreadId # NullThread /\ storedThreadId \in validThreads
             THEN /\ pcLoad' = "messages"
                  /\ UNCHANGED << uuids, storedThread, threadId, messages,
                                  isLoadingHistory >>
             ELSE /\ pcLoad' = "done"
                  /\ LoadCreatesThread
    /\ UNCHANGED << isMounted, serverThreads, storedThreadId, switching, lastSwitch,
                    deleting, titleVars, besidesThreads >>

\* loadThread, listMemoryThreads rejected (or resolved with nothing to read
\* threads from): the catch block.
LoadThreadListFailed ==
    /\ pcLoad = "listing"
    /\ pcLoad' = "done"
    /\ LoadCreatesThread
    /\ UNCHANGED << isMounted, allThreads, serverThreads, storedThreadId, switching,
                    lastSwitch, deleting, titleVars, besidesThreads >>

\* loadThread, listThreadMessages(storedThreadId) resolved.
LoadThreadMessages ==
    /\ pcLoad = "messages"
    /\ pcLoad' = "done"
    /\ \E res \in MessagesResponses(storedThreadId) :
          IF isMounted
          THEN /\ IF LoadPasses(res)
                  THEN /\ messages' = res.messages
                       /\ threadId' = storedThreadId
                  ELSE UNCHANGED << messages, threadId >>
               /\ isLoadingHistory' = FALSE
          ELSE UNCHANGED << messages, threadId, isLoadingHistory >>
    /\ UNCHANGED << uuids, storedThread, isMounted, allThreads, serverThreads,
                    storedThreadId, switching, lastSwitch, deleting, titleVars,
                    besidesThreads >>

\* loadThread, listThreadMessages(storedThreadId) rejected: the catch block.
LoadThreadMessagesFailed ==
    /\ pcLoad = "messages"
    /\ pcLoad' = "done"
    /\ LoadCreatesThread
    /\ UNCHANGED << isMounted, allThreads, serverThreads, storedThreadId, switching,
                    lastSwitch, deleting, titleVars, besidesThreads >>

\* The effect's cleanup: return () => { isMounted = false; }
Unmount ==
    /\ isMounted
    /\ isMounted' = FALSE
    /\ UNCHANGED << threadId, storedThread, uuids, messages, isLoadingHistory,
                    allThreads, serverThreads, pcLoad, storedThreadId, switching,
                    lastSwitch, deleting, titleVars, besidesThreads >>

\* handleSwitchThread(id) up to its await, from a thread of the sidebar.
HandleSwitchThread ==
    /\ isMounted
    /\ \E id \in allThreads \ switching : switching' = switching \cup {id}
    /\ isLoadingHistory' = TRUE
    /\ UNCHANGED << threadId, storedThread, uuids, messages, isMounted, allThreads,
                    serverThreads, pcLoad, storedThreadId, lastSwitch, deleting,
                    titleVars, besidesThreads >>

\* A handleSwitchThread that takes the thread before it looks at the
\* response.
HandleSwitchThreadUnchecked ==
    \E id \in switching : \E res \in MessagesResponses(id) :
        /\ storedThread' = id
        /\ IF isMounted
           THEN /\ messages' = res.messages
                /\ threadId' = id
                /\ isLoadingHistory' = FALSE
           ELSE UNCHANGED << messages, threadId, isLoadingHistory >>
        /\ switching' = switching \ {id}
        /\ lastSwitch' = res
        /\ UNCHANGED << uuids, isMounted, allThreads, serverThreads, pcLoad,
                        storedThreadId, deleting, titleVars, besidesThreads >>

\* handleSwitchThread(id), listThreadMessages resolved, and the finally.
HandleSwitchThreadResolved ==
    \E id \in switching : \E res \in MessagesResponses(id) :
        /\ IF SwitchPasses(res)
           THEN /\ storedThread' = id
                /\ IF isMounted
                   THEN /\ messages' = res.messages
                        /\ threadId' = id
                   ELSE UNCHANGED << messages, threadId >>
           ELSE UNCHANGED << storedThread, messages, threadId >>
        /\ isLoadingHistory' = IF isMounted THEN FALSE ELSE isLoadingHistory
        /\ switching' = switching \ {id}
        /\ lastSwitch' = res
        /\ UNCHANGED << uuids, isMounted, allThreads, serverThreads, pcLoad,
                        storedThreadId, deleting, titleVars, besidesThreads >>

\* handleSwitchThread(id), listThreadMessages rejected: catch and finally.
HandleSwitchThreadFailed ==
    \E id \in switching :
        /\ isLoadingHistory' = IF isMounted THEN FALSE ELSE isLoadingHistory
        /\ switching' = switching \ {id}
        /\ lastSwitch' = Thrown
        /\ UNCHANGED << threadId, storedThread, uuids, messages, isMounted,
                        allThreads, serverThreads, pcLoad, storedThreadId, deleting,
                        titleVars, besidesThreads >>

\* handleDeleteThread(e, threadIdToDelete) up to its await, from a thread of
\* the sidebar; the handler keeps the threadId of the render it was made in.
HandleDeleteThread ==
    /\ isMounted
    /\ \E id \in allThreads :
          /\ \A d \in deleting : d.id # id
          /\ deleting' = deleting \cup {[id |-> id, threadId |-> threadId]}
    /\ UNCHANGED << threadId, storedThread, uuids, messages, isMounted,
                    isLoadingHistory, allThreads, serverThreads, pcLoad,
                    storedThreadId, switching, lastSwitch, titleVars, besidesThreads >>

\* handleDeleteThread, fetch resolved: the server has deleted the thread; it
\* leaves the sidebar and the title cache, and a new chat is started if it
\* was the current thread.
HandleDeleteThreadResolved ==
    \E d \in deleting :
        /\ serverThreads' = serverThreads \ {d.id}
        /\ allThreads' = IF isMounted THEN allThreads \ {d.id} ELSE allThreads
        /\ titleCache' = [t \in DOMAIN titleCache |->
                             IF t = d.id THEN NoCachedTitle ELSE titleCache[t]]
        /\ IF d.threadId = d.id
           THEN /\ uuids < MaxThreads
                /\ uuids' = uuids + 1
                /\ storedThread' = uuids + 1
                /\ IF isMounted
                   THEN /\ threadId' = uuids + 1
                        /\ messages' = << >>
                   ELSE UNCHANGED << threadId, messages >>
           ELSE UNCHANGED << uuids, storedThread, threadId, messages >>
        /\ deleting' = deleting \ {d}
        /\ UNCHANGED << isMounted, isLoadingHistory, pcLoad, storedThreadId,
                        switching, lastSwitch, titleCalls, besidesThreads >>

\* handleDeleteThread, fetch rejected: the catch block logs.
HandleDeleteThreadFailed ==
    \E d \in deleting :
        /\ deleting' = deleting \ {d}
        /\ UNCHANGED << threadId, storedThread, uuids, messages, isMounted,
                        isLoadingHistory, allThreads, serverThreads, pcLoad,
                        storedThreadId, switching, lastSwitch, titleVars,
                        besidesThreads >>

----------------------------------------------------------------------------

\* The tool, the page and the turn before anything has happened.
InitChat ==
    /\ pcTool = "idle"
    /\ toolQuery = ""
    /\ toolArgTopK = NoTopK
    /\ toolTopK = NoTopK
    /\ embedding = NoVec
    /\ indexAnswer = << >>
    /\ results = << >>
    /\ toolOutcome = "pending"
    /\ failedStep = "none"
    /\ errorLog = 0
    /\ calls = << >>
    /\ input = << >>
    /\ threadId = NullThread
    /\ uuids = 0
    /\ messages = << >>
    /\ isRunning = FALSE
    /\ turn = "idle"
    /\ question = << >>
    /\ retrieval = "none"
    /\ prompt = NoPrompt
    /\ answer = << >>
    /\ outcomes = << >>

\* No assistant message has been rendered.
InitCite ==
    /\ pageVariant = "first"
    /\ msgText = << >>
    /\ years = NotRendered
    /\ badges = << >>

\* No title has been generated or cached.
InitTitle ==
    /\ titleCache = [id \in TitleThreads |-> NoCachedTitle]
    /\ titleCalls = << >>

\* The page is mounted with nothing to load: its mount effect has ended
\* with the thread list empty.
InitThreads ==
    /\ isMounted = TRUE
    /\ isLoadingHistory = FALSE
    /\ allThreads = {}
    /\ serverThreads = {}
    /\ pcLoad = "done"
    /\ storedThreadId = NullThread
    /\ switching = {}
    /\ lastSwitch = NoSwitch
    /\ deleting = {}

\* The ingestion script before it is started.
InitRuns ==
    /\ upserts = << >>
    /\ pcIngest = [r \in Runs |-> "start"]
    /\ pdfFiles = [r \in Runs |-> << >>]
    /\ fileAt = [r \in Runs |-> 0]
    /\ filename = [r \in Runs |-> << >>]
    /\ year = [r \in Runs |-> << >>]
    /\ docText = [r \in Runs |-> << >>]
    /\ chunks = [r \in Runs |-> << >>]
    /\ chunkMeta = [r \in Runs |-> << >>]
    /\ embeddings = [r \in Runs |-> << >>]
    /\ totalChunks = [r \in Runs |-> 0]
    /\ processedFiles = [r \in Runs |-> 0]
    /\ error = [r \in Runs |-> NoError]
    /\ exitCode = [r \in Runs |-> NoExit]
    /\ ingestLog = [r \in Runs |-> << >>]

Init ==
    /\ variant \in Variants
    /\ index \in Indexes
    /\ InitChat
    /\ storedThread = NullThread
    /\ InitCite
    /\ InitTitle
    /\ InitThreads
    /\ indexExists = TRUE
    /\ directory = [r \in Runs |-> {}]
    /\ InitRuns

Next ==
    \/ ToolInvoke
    \/ EmbedOk
    \/ EmbedFail
    \/ QueryOk
    \/ QueryFail
    \/ ToolTaken
    \/ ConcurrentUpsert

Spec == Init /\ [][Next]_vars

InitTurn == Init /\ index \in SeedIndexes

NextTurn ==
    \/ SetInput
    \/ HandleNewChat
    \/ HandleSubmit
    \/ StartFail
    \/ Decide
    \/ EmbedOk
    \/ EmbedFail
    \/ QueryOk
    \/ QueryFail
    \/ Compose
    \/ ToolRaised
    \/ GenToken
    \/ GenFinish
    \/ GenFail

SpecTurn == InitTurn /\ [][NextTurn]_vars

\* The page's side of a turn alone: typing, new chat, submitting, and the
\* hook's promise settling with the request never reaching the agent.
InitSend == Init /\ index = << >> /\ variant = "A"

NextSend ==
    \/ SetInput
    \/ HandleNewChat
    \/ HandleSubmit
    \/ StartFail

SpecSend == InitSend /\ [][NextSend]_vars

\* Ingestion runs against an index that is new, empty or already populated.
InitIngest ==
    /\ variant = "A"
    /\ InitChat
    /\ storedThread = NullThread
    /\ InitCite
    /\ InitTitle
    /\ InitThreads
    /\ index \in SeedIndexes
    /\ indexExists \in BOOLEAN
    /\ ~indexExists => index = << >>
    /\ directory \in { d \in [Runs -> Directories] :
                          \A r \in Runs \ {1} : d[r] = ReingestedDirectory }
    /\ InitRuns

NextIngest ==
    \E r \in Runs :
        \/ EnvMissing(r)
        \/ EnvOk(r)
        \/ CreateIndexOk(r)
        \/ CreateIndexExists(r)
        \/ CreateIndexFail(r)
        \/ ListFiles(r)
        \/ ForNext(r)
        \/ ExtractOk(r)
        \/ ExtractFail(r)
        \/ ChunkOk(r)
        \/ ChunkFail(r)
        \/ EmbedManyOk(r)
        \/ EmbedManyFail(r)
        \/ UpsertOk(r)
        \/ UpsertFail(r)
        \/ Summary(r)

SpecIngest == InitIngest /\ [][NextIngest]_vars

\* Everything but the part under study is at rest.
InitIdle ==
    /\ variant = "A"
    /\ index = << >>
    /\ InitChat
    /\ indexExists = TRUE
    /\ directory = [r \in Runs |-> {}]
    /\ InitRuns

\* An assistant message of either page is about to be rendered.
InitCitations ==
    /\ InitIdle
    /\ storedThread = NullThread
    /\ pageVariant \in PageVariants
    /\ msgText \in Texts
    /\ years = NotRendered
    /\ badges = << >>
    /\ InitTitle
    /\ InitThreads

NextCitations ==
    \/ RenderCitations
    \/ RenderAgain

SpecCitations == InitCitations /\ [][NextCitations]_vars

\* Titles are generated with the cache empty or holding a title.
InitTitles ==
    /\ InitIdle
    /\ storedThread = NullThread
    /\ InitCite
    /\ titleCache \in [TitleThreads -> {NoCachedTitle, << "T" >>}]
    /\ titleCalls = << >>
    /\ InitThreads

NextTitle == GenerateTitle

SpecTitle == InitTitles /\ [][NextTitle]_vars

\* The page has just been mounted: loadThread has read localStorage and
\* awaits the thread list.
InitPage ==
    /\ InitIdle
    /\ storedThread \in StoredAtMount
    /\ InitCite
    /\ InitTitle
    /\ isMounted = TRUE
    /\ isLoadingHistory = TRUE
    /\ allThreads = {}
    /\ serverThreads = ServerThreadIds
    /\ pcLoad = "listing"
    /\ storedThreadId = storedThread
    /\ switching = {}
    /\ lastSwitch = NoSwitch
    /\ deleting = {}

NextPage ==
    \/ LoadThreadListed
    \/ LoadThreadListFailed
    \/ LoadThreadMessages
    \/ LoadThreadMessagesFailed
    \/ Unmount
    \/ HandleNewChat
    \/ HandleSwitchThread
    \/ HandleSwitchThreadResolved
    \/ HandleSwitchThreadFailed
    \/ HandleDeleteThread
    \/ HandleDeleteThreadResolved
    \/ HandleDeleteThreadFailed

SpecPage == InitPage /\ [][NextPage]_vars

----------------------------------------------------------------------------
\* Claims about the retrieval tool, checked under Spec.

\* The topK a caller asked for: its own value, or the contract's default of 10.
RequestedTopK == IF toolArgTopK = NoTopK THEN 10 ELSE toolArgTopK

\* The text a result must carry for an entry's metadata.
ExpectedText(metadata) ==
    IF metadata = NoMeta THEN ""
    ELSE IF "text" \in DOMAIN metadata THEN metadata.text
    ELSE ""

Descending(rs) ==
    \A i \in 1..Len(rs) : \A j \in 1..Len(rs) :
        i < j => rs[i].score >= rs[j].score

\* C1: execute never raises to the calling agent; when the embedding call or
\* the index query fails it returns {results: []}.
C1_NeverRaises ==
    /\ toolOutcome # "raised"
    /\ (pcTool = "finished" /\ failedStep # "none")
           => (toolOutcome = "returned" /\ results = << >>)

\* C5: a retrieval that degraded to the empty result because embed or the
\* index query failed has logged the error; a retrieval whose calls both
\* succeeded returns (never raises) and has logged no error, also when the
\* index answered zero matches.
C5_FailureRecorded ==
    /\ (pcTool = "finished" /\ toolOutcome = "returned" /\ failedStep # "none")
           => (results = << >> /\ errorLog > 0)
    /\ (pcTool = "finished" /\ failedStep = "none")
           => (toolOutcome = "returned" /\ errorLog = 0)
    /\ (pcTool = "finished" /\ failedStep = "none" /\ indexAnswer = << >>)
           => results = << >>

C5_Witness ==
    /\ pcTool = "finished"
    /\ failedStep = "query"
    /\ toolOutcome = "returned"
    /\ errorLog > 0
    /\ Len(index) > 0

\* C6: the steps of one retrieval are strictly sequential: while embed is
\* awaited no query has been issued; the query is issued once, after the
\* embedding completed and with exactly that embedding; results are returned
\* only after the query completed, one embed call and one query call made.
C6_Sequential ==
    /\ \A i \in 1..Len(calls) :
          /\ calls[i].op = "embed" => i = 1
          /\ calls[i].op = "query" => i = 2
    /\ pcTool = "embedding"
          => (calls = << EmbedCall(toolQuery) >> /\ embedding = NoVec
              /\ toolOutcome = "pending")
    /\ pcTool = "querying"
          => (/\ Len(calls) = 2
              /\ calls[1] = EmbedCall(toolQuery)
              /\ calls[2].op = "query"
              /\ embedding = Embed(toolQuery)
              /\ calls[2].vector = embedding
              /\ toolOutcome = "pending"
              /\ results = << >>)
    /\ (pcTool = "finished" /\ failedStep = "none")
          => (/\ Len(calls) = 2
              /\ calls[2].vector = embedding
              /\ embedding = Embed(toolQuery)
              /\ Len(results) = Len(indexAnswer))
    /\ (pcTool = "finished" /\ failedStep = "embed")
          => (Len(calls) = 1 /\ embedding = NoVec)

C6_Witness ==
    /\ pcTool = "querying"
    /\ toolQuery = "float"
    /\ calls[2].vector = 1

\* C7: the returned list has at most the requested topK entries, is ordered
\* by descending score, and holds the entries of the index answer in the
\* same order and number.
C7_AtMostTopK ==
    (pcTool = "finished" /\ toolOutcome = "returned")
        => (/\ Len(results) <= RequestedTopK
            /\ Descending(results)
            /\ Len(results) = Len(indexAnswer)
            /\ \A i \in 1..Len(results) : results[i].score = indexAnswer[i].score)

\* C8: without a topK from the caller the index is queried with topK = 10,
\* with one it is queried with exactly that value.
C8_QueriedTopK ==
    \A i \in 1..Len(calls) :
        calls[i].op = "query" => calls[i].topK = RequestedTopK

\* C9: result i is built from entry i of the index answer alone: its text is
\* the entry's metadata.text (the empty string without metadata or text), its
\* metadata and score are the entry's, unchanged.
C9_ResultFromEntry ==
    (pcTool = "finished" /\ toolOutcome = "returned" /\ failedStep = "none")
        => (/\ Len(results) = Len(indexAnswer)
            /\ \A i \in 1..Len(results) :
                  /\ DOMAIN results[i] = {"text", "metadata", "score"}
                  /\ results[i].text = ExpectedText(indexAnswer[i].metadata)
                  /\ results[i].metadata = indexAnswer[i].metadata
                  /\ results[i].score = indexAnswer[i].score)

C9_Witness ==
    /\ pcTool = "finished"
    /\ toolOutcome = "returned"
    /\ Len(results) = 3
    /\ \E i, j, k \in 1..3 :
          /\ results[i].metadata = NoMeta /\ results[i].text = ""
          /\ results[j].metadata = MetaNoText /\ results[j].text = ""
          /\ results[k].text = "moats text"

\* C10: a retrieval leaves the vector index unchanged whether it succeeds or
\* fails: every step of execute keeps the index as it is, and the only
\* operation it issues against the index is a query.
C10_IndexUnchanged ==
    /\ [][(pcTool' # pcTool \/ calls' # calls) => index' = index]_vars
    /\ [](\A i \in 1..Len(calls) : calls[i].op \in {"embed", "query"})

C10_Witness ==
    /\ pcTool = "finished"
    /\ toolOutcome = "returned"
    /\ failedStep = "none"
    /\ Len(index) = 2
    /\ Len(results) = 2

----------------------------------------------------------------------------
\* Claims about the turn, checked under SpecTurn.

\* C2: a turn whose model call failed never shows the user the same outcome
\* as a turn that completed after an empty but successful retrieval.
C2_FailedDistinct ==
    \A i \in 1..Len(outcomes) : \A j \in 1..Len(outcomes) :
        (/\ outcomes[i].kind = "failed"
         /\ outcomes[i].cause = "model"
         /\ outcomes[j].kind = "done"
         /\ outcomes[j].retrieval = "empty")
            => outcomes[i].view # outcomes[j].view

\* C3: every ended turn is Done with a finalized answer or Failed with a
\* degraded message on the page, also when the model call or the send fails
\* after the input box was cleared.
C3_VisibleOutcome ==
    \A i \in 1..Len(outcomes) :
        \/ outcomes[i].kind = "done" /\ outcomes[i].answer # << >>
        \/ /\ outcomes[i].kind = "failed"
           /\ \E m \in 1..Len(outcomes[i].view.messages) :
                  outcomes[i].view.messages[m] = ErrorMessage

\* C4: a retrieval that failed or found nothing never moves the turn to
\* Failed: a failed turn failed at the send or at the model call, and a turn
\* that is Done after such a retrieval has a non-empty answer.
C4_RetrievalNeverFails ==
    \A i \in 1..Len(outcomes) :
        /\ outcomes[i].kind = "failed" => outcomes[i].cause \in {"send", "model"}
        /\ outcomes[i].kind = "done" => outcomes[i].answer # << >>

----------------------------------------------------------------------------
\* Claims about the ingestion job, checked under SpecIngest.

\* The console lines of run r that report how a file ended.
FileRecords(r, f) ==
    SelectSeq(ingestLog[r], LAMBDA l : l.file = f /\ l.what # "summary")

\* The files run r has finished with.
FinishedFiles(r) ==
    { Basename(pdfFiles[r][i]) :
        i \in { j \in 1..fileAt[r] :
                  j < fileAt[r] \/ pcIngest[r] \in {"for", "exited"} } }

\* C11: index creation is idempotent. When createIndex rejects because the
\* index already exists the run goes on to list the documents, any other
\* rejection ends the run with a nonzero exit code, and in no case does the
\* step alter or remove an entry of the index or take the index away.
C11_CreateIndexIdempotent ==
    [][\A r \in Runs :
          (pcIngest[r] = "createIndex" /\ pcIngest'[r] # "createIndex") =>
              /\ index' = index
              /\ indexExists => indexExists'
              /\ error'[r] \in {NoError, ErrorAlreadyExists} =>
                     (pcIngest'[r] = "getPdfFiles" /\ exitCode'[r] = NoExit)
              /\ error'[r] \in {ErrorConnection, ErrorNoMessage} =>
                     (pcIngest'[r] = "exited" /\ exitCode'[r] > 0)]_vars

\* A run found the index in place, with entries, and went on to store a
\* document behind them.
C11_Witness ==
    \E r \in Runs :
        /\ error[r] = ErrorAlreadyExists
        /\ processedFiles[r] = 1
        /\ Len(index) > 2
        /\ index[1].metadata = MetaFull

\* The steps of the loop body that can fail.
FileSteps == {"extract", "chunk", "embedMany", "upsert"}

\* C12: failures are isolated per document. Every document the loop has
\* finished with ended in exactly one way (stored, skipped, or failed with an
\* error line naming it); a failure leaves the run in the loop, so a run that
\* got past the file listing ends only after taking every document, and
\* every document reported as completed was stored by an upsert of its own.
C12_FailureIsolated ==
    \A r \in Runs :
        /\ \A f \in FinishedFiles(r) :
              /\ Len(FileRecords(r, f)) = 1
              /\ FileRecords(r, f)[1].what \in FileSteps
                     => FileRecords(r, f)[1].level = "error"
              /\ FileRecords(r, f)[1].what = "completed"
                     => \E i \in DOMAIN upserts :
                            /\ upserts[i].run = r
                            /\ upserts[i].metadata[1].source = f
        /\ (pcIngest[r] = "exited" /\ pdfFiles[r] # << >>)
               => (fileAt[r] = Len(pdfFiles[r]) /\ exitCode[r] = 0)

\* A run logged the failure of one document and stored the next one.
C12_Witness ==
    \E r \in Runs :
        /\ pcIngest[r] = "exited"
        /\ \E i \in DOMAIN ingestLog[r] : \E j \in DOMAIN ingestLog[r] :
              /\ i < j
              /\ ingestLog[r][i].level = "error"
              /\ ingestLog[r][i].what \in FileSteps
              /\ ingestLog[r][j].what = "completed"

\* C13: a document whose extracted text is empty or blank is skipped. The
\* run never chunks, embeds or upserts it, it is reported as skipped and not
\* as completed, processedFiles counts the completed documents only, and the
\* loop goes on.
C13_BlankSkipped ==
    \A r \in Runs :
        /\ pcIngest[r] \in {"chunk", "embedMany", "upsert"}
               => Len(Trim(docText[r])) > 0
        /\ \A i \in DOMAIN ingestLog[r] :
               ingestLog[r][i].what = "completed"
                   => Len(Trim(PdfText(ingestLog[r][i].file))) > 0
        /\ \A i \in DOMAIN upserts :
               Len(Trim(PdfText(upserts[i].metadata[1].source))) > 0
        /\ processedFiles[r] =
               Cardinality({ i \in DOMAIN ingestLog[r] :
                               ingestLog[r][i].what = "completed" })
        /\ \A f \in FinishedFiles(r) :
               (Len(Trim(PdfText(f))) = 0 /\ FileRecords(r, f)[1].level # "error")
                   => FileRecords(r, f)[1].what = "skip"

\* A run skipped the blank document and then stored the next one.
C13_Witness ==
    \E r \in Runs :
        /\ Len(ingestLog[r]) >= 3
        /\ \E i \in DOMAIN ingestLog[r] :
              /\ ingestLog[r][i] = [level |-> "info", what |-> "skip", file |-> File22]
              /\ i < Len(ingestLog[r])
              /\ ingestLog[r][i + 1] =
                     [level |-> "info", what |-> "completed", file |-> File24]
        /\ processedFiles[r] = 1

\* Run r met an unavailable store: at index creation or at an upsert.
StoreUnavailable(r) ==
    \E i \in DOMAIN ingestLog[r] :
        \/ ingestLog[r][i].what = "upsert"
        \/ (ingestLog[r][i].what = "fatal" /\ error[r] = ErrorConnection)

\* C14: a run that has exited has code 0 when every document was ingested,
\* and a nonzero code when it found no source file or when the vector store
\* was unavailable, be it at index creation or at an upsert.
C14_ExitCode ==
    \A r \in Runs :
        pcIngest[r] = "exited" =>
            /\ (pdfFiles[r] # << >> /\ processedFiles[r] = Len(pdfFiles[r]))
                   => exitCode[r] = 0
            /\ (\E i \in DOMAIN ingestLog[r] : ingestLog[r][i].what = "no files")
                   => exitCode[r] > 0
            /\ StoreUnavailable(r) => exitCode[r] > 0

\* C15: per-file failures are logged and leave the exit code at 0 as long as
\* one file was ingested; a run in which no file succeeded exits nonzero.
C15_ExitCodePartial ==
    \A r \in Runs :
        (pcIngest[r] = "exited" /\ pdfFiles[r] # << >>) =>
            /\ \A f \in FinishedFiles(r) :
                   (\E i \in DOMAIN ingestLog[r] :
                        ingestLog[r][i].file = f /\ ingestLog[r][i].level = "error")
                   \/ FileRecords(r, f)[1].what \in {"completed", "skip"}
            /\ processedFiles[r] >= 1 => exitCode[r] = 0
            /\ processedFiles[r] = 0 => exitCode[r] > 0

\* The vectors and metadata arrays of every upsert issued: those that
\* resolved, and the one each run is about to issue.
UpsertArguments ==
    { [vectors |-> upserts[i].vectors, metadata |-> upserts[i].metadata] :
        i \in DOMAIN upserts }
    \cup { [vectors |-> embeddings[r], metadata |-> chunkMeta[r]] :
             r \in { q \in Runs : pcIngest[q] = "upsert" } }

\* C16: in every upsert the vectors and metadata arrays have the same
\* length, and at every position the vector is the embedding of the chunk
\* text the metadata carries.
C16_UpsertAligned ==
    \A u \in UpsertArguments :
        /\ Len(u.vectors) = Len(u.metadata)
        /\ \A i \in DOMAIN u.vectors : u.vectors[i] = Embed(u.metadata[i].text)

\* An upsert of two chunks with different embeddings resolved.
C16_Witness ==
    \E i \in DOMAIN upserts :
        /\ upserts[i].vectors = << Embed("moats"), Embed("float") >>
        /\ upserts[i].metadata[1].text = "moats"
        /\ upserts[i].metadata[2].text = "float"

\* C17: the entries of a document of n chunks carry chunkIndex 0, 1, ...,
\* n-1 in chunk order, each once, and totalChunks = n; a run stores a
\* document with one upsert.
C17_ChunkIndexContiguous ==
    /\ \A u \in UpsertArguments :
          \A i \in DOMAIN u.metadata :
              /\ u.metadata[i].chunkIndex = i - 1
              /\ u.metadata[i].totalChunks = Len(u.metadata)
    /\ \A i \in DOMAIN upserts : \A j \in DOMAIN upserts :
          (upserts[i].run = upserts[j].run
             /\ upserts[i].metadata[1].source = upserts[j].metadata[1].source)
              => i = j

\* The index holds the two entries of a two-chunk document, numbered 0 and 1.
C17_Witness ==
    \E i \in DOMAIN index :
        /\ i < Len(index)
        /\ index[i].metadata = [kind |-> "object", text |-> "moats", source |-> File23,
                                year |-> << "2", "3" >>, chunkIndex |-> 0,
                                totalChunks |-> 2]
        /\ index[i + 1].metadata.chunkIndex = 1
        /\ index[i + 1].metadata.totalChunks = 2

\* C18: ingestion is additive. No step of any run changes or removes an
\* entry the index holds or makes the index shorter, and an upsert that
\* resolves adds one new entry per chunk behind the entries already there,
\* also when the document was ingested before.
C18_Additive ==
    [][/\ Len(index') >= Len(index)
       /\ \A i \in DOMAIN index : index'[i] = index[i]
       /\ \A r \in Runs :
             processedFiles'[r] # processedFiles[r]
                 => Len(index') = Len(index) + Len(chunks[r])]_vars

\* The same document was ingested twice, and the index holds both sets of
\* its entries.
C18_Witness ==
    \E i \in DOMAIN index : \E j \in DOMAIN index :
        /\ i < j
        /\ index[i] = index[j]
        /\ "source" \in DOMAIN index[i].metadata
        /\ index[i].metadata.source = File23
        /\ Len(upserts) = 2

\* The entries a run working alone adds for the file f.
EntriesAlone(f) ==
    LET words == SelectSeq(PdfText(f), LAMBDA w : w # " ")
    IN  [k \in DOMAIN words |->
            [vector |-> Embed(words[k]),
             metadata |-> [kind |-> "object", text |-> words[k], source |-> f,
                           year |-> extractYearFromFilename(PathJoin(DOCUMENTS_DIR, f)),
                           chunkIndex |-> k - 1, totalChunks |-> Len(words)]]]

\* The runs that have stored the file f.
RunsCompleted(f) ==
    { r \in Runs : \E i \in DOMAIN ingestLog[r] :
                      ingestLog[r][i].what = "completed" /\ ingestLog[r][i].file = f }

\* How often the entry e is in the index.
Copies(e) == Cardinality({ i \in DOMAIN index : index[i] = e })

\* C19: whatever the interleaving of two runs, the index holds exactly the
\* entries each run adds when it works alone: for every file a run stored,
\* each of that file's entries is there once per run that stored it, and
\* every entry ingestion added is such an entry (vector and metadata of the
\* same chunk).
C19_InterleavedRuns ==
    /\ \A f \in UNION { directory[r] : r \in Runs } :
          \A k \in DOMAIN EntriesAlone(f) :
              Copies(EntriesAlone(f)[k]) = Cardinality(RunsCompleted(f))
    /\ \A i \in DOMAIN index :
          "source" \in DOMAIN index[i].metadata
              => \E k \in DOMAIN EntriesAlone(index[i].metadata.source) :
                     index[i] = EntriesAlone(index[i].metadata.source)[k]

\* Two runs have both ended after their upserts interleaved: the second run
\* stored its file between two upserts of the first.
C19_Witness ==
    /\ \A r \in Runs : pcIngest[r] = "exited"
    /\ Len(upserts) = 3
    /\ upserts[1].run = 1
    /\ upserts[2].run = 2
    /\ upserts[3].run = 1

\* A file name without its extension of four characters (.pdf, .PDF, ...).
WithoutExtension(f) == SubSeq(f, 1, Len(f) - Len(PdfExt))

\* C20: every entry stored for an accepted PDF file has metadata.source
\* equal to the file's name and metadata.year equal to that name without its
\* .pdf extension, whatever the letter case of the extension.
C20_SourceAndYear ==
    \A i \in DOMAIN upserts :
        \E f \in directory[upserts[i].run] :
            /\ EndsWith(ToLowerCase(f), PdfExt)
            /\ \A k \in DOMAIN upserts[i].metadata :
                  /\ upserts[i].metadata[k].source = f
                  /\ upserts[i].metadata[k].year = WithoutExtension(f)

\* The upserts of run r that resolved, in order.
UpsertsOf(r) == SelectSeq(upserts, LAMBDA u : u.run = r)

\* C23: a document reaches the index only after its whole batch of chunks
\* was embedded. A run is at the upsert only with one embedding per chunk, a
\* document whose embedding batch failed has no upsert of that run, and a
\* stored document was written by one upsert carrying all of its chunks.
C23_WholeBatchOrNothing ==
    \A r \in Runs :
        /\ pcIngest[r] = "upsert"
               => (Len(chunks[r]) > 0 /\ Len(embeddings[r]) = Len(chunks[r]))
        /\ \A i \in DOMAIN ingestLog[r] :
               ingestLog[r][i].what = "embedMany"
                   => \A j \in DOMAIN UpsertsOf(r) :
                          UpsertsOf(r)[j].metadata[1].source # ingestLog[r][i].file
        /\ \A j \in DOMAIN UpsertsOf(r) :
               /\ Len(UpsertsOf(r)[j].vectors)
                      = Len(Chunk(PdfText(UpsertsOf(r)[j].metadata[1].source)))
               /\ \A k \in DOMAIN UpsertsOf(r) :
                      UpsertsOf(r)[j].metadata[1].source
                          = UpsertsOf(r)[k].metadata[1].source => j = k

\* The embedding batch of the two-chunk document failed in a run that has
\* ended, and the run stored nothing of it.
C23_Witness ==
    \E r \in Runs :
        /\ pcIngest[r] = "exited"
        /\ \E i \in DOMAIN ingestLog[r] :
              ingestLog[r][i] = [level |-> "error", what |-> "embedMany", file |-> File23]
        /\ \A j \in DOMAIN UpsertsOf(r) : UpsertsOf(r)[j].metadata[1].source # File23

\* The file lines of run r's console, in order.
FileLines(r) == SelectSeq(ingestLog[r], LAMBDA l : l.file # << >>)

\* C24: documents are handled one at a time in ascending file-name order.
\* pdfFiles is strictly ascending, the k-th file line of the console is
\* about the k-th file, and while a document is in hand every earlier
\* document has ended and the one in hand has not: no document is taken
\* twice and none is started before the one before it has ended.
C24_OneAtATimeInOrder ==
    \A r \in Runs :
        /\ \A i \in DOMAIN pdfFiles[r] : \A j \in DOMAIN pdfFiles[r] :
               i < j => Precedes(Basename(pdfFiles[r][i]), Basename(pdfFiles[r][j]))
        /\ fileAt[r] <= Len(pdfFiles[r])
        /\ \A k \in DOMAIN FileLines(r) :
               k <= fileAt[r] /\ FileLines(r)[k].file = Basename(pdfFiles[r][k])
        /\ Len(FileLines(r)) =
               IF pcIngest[r] \in FileSteps THEN fileAt[r] - 1
               ELSE fileAt[r]

\* A run took two documents, the second after the first had ended.
C24_Witness ==
    \E r \in Runs :
        /\ Len(pdfFiles[r]) = 2
        /\ fileAt[r] = 2
        /\ pcIngest[r] = "embedMany"
        /\ Len(FileLines(r)) = 1
        /\ FileLines(r)[1].file = File23
        /\ filename[r] = File24

RECURSIVE SumChunks(_)
SumChunks(us) ==
    IF us = << >> THEN 0 ELSE Len(Head(us).vectors) + SumChunks(Tail(us))

\* C26: at every point of a run processedFiles is the number of documents
\* whose upsert resolved, totalChunks is the sum of their chunk counts, and
\* processedFiles is at most the number of PDF files found; documents that
\* were skipped or failed count in neither.
C26_Counters ==
    \A r \in Runs :
        /\ processedFiles[r] = Len(UpsertsOf(r))
        /\ totalChunks[r] = SumChunks(UpsertsOf(r))
        /\ processedFiles[r] <= Len(pdfFiles[r])
        /\ processedFiles[r] + Cardinality({ i \in DOMAIN FileLines(r) :
                                   FileLines(r)[i].what # "completed" })
               = Len(FileLines(r))

\* A run that has ended stored the two-chunk document and failed on the
\* other one.
C26_Witness ==
    \E r \in Runs :
        /\ pcIngest[r] = "exited"
        /\ Len(pdfFiles[r]) = 2
        /\ processedFiles[r] = 1
        /\ totalChunks[r] = 2
        /\ \E i \in DOMAIN ingestLog[r] : ingestLog[r][i].level = "error"

----------------------------------------------------------------------------
\* Claims about the page, checked under SpecCitations, SpecTitle and SpecPage.

\* Where a reference to a letter starts in the text rendered.
Occurrences == { i \in DOMAIN msgText : MatchesAt(msgText, i) }

FirstOccurrence(y) ==
    CHOOSE i \in Occurrences :
        /\ SubSeq(msgText, i, i + 5) = y
        /\ \A j \in Occurrences : SubSeq(msgText, j, j + 5) = y => i <= j

\* The citation list is the distinct references of the text, each once, in
\* the order of their first occurrence.
CitationsExtracted ==
    /\ { years[k] : k \in DOMAIN years }
           = { SubSeq(msgText, i, i + 5) : i \in Occurrences }
    /\ \A a \in DOMAIN years : \A b \in DOMAIN years :
           a < b => FirstOccurrence(years[a]) < FirstOccurrence(years[b])

\* C21: the citations of a rendered assistant message are the distinct
\* references "(" 19dd or 20dd ")" of its text, each once, in order of first
\* occurrence, and every distinct cited year has exactly one badge.
C21_Citations ==
    years # NotRendered =>
        /\ CitationsExtracted
        /\ msgText = Ref("2", "0", "2", "0") => years = << Ref("2", "0", "2", "0") >>
        /\ \A k \in DOMAIN years :
               Cardinality({ b \in DOMAIN badges : badges[b] = StripParens(years[k]) }) = 1

\* The title the agent's response yields, when it is usable: non-empty and
\* of at most 50 characters.
Usable(c) ==
    /\ c.agentCalled
    /\ c.response.kind \in {"object", "string"}
    /\ ResponseTitle(c.response) # << >>
    /\ Len(ResponseTitle(c.response)) <= TitleMax

\* The cache had a title for the call's thread.
CacheHit(c) == c.cached # NoCachedTitle /\ c.cached # << >>

\* The first 35 characters of the message (all of it when it is shorter)
\* followed by '...'.
CutPlusDots(m) ==
    SubSeq(m, 1, IF Len(m) > TitleCut THEN TitleCut ELSE Len(m)) \o << ".", ".", "." >>

\* The cache entry of call k's thread right after the call.
CacheAfter(k) ==
    IF \E j \in DOMAIN titleCalls :
           j > k /\ titleCalls[j].threadId = titleCalls[k].threadId
    THEN LET next == CHOOSE j \in DOMAIN titleCalls :
                       /\ j > k /\ titleCalls[j].threadId = titleCalls[k].threadId
                       /\ \A i \in DOMAIN titleCalls :
                              (i > k /\ titleCalls[i].threadId = titleCalls[k].threadId)
                                  => j <= i
         IN  titleCalls[next].cached
    ELSE titleCache[titleCalls[k].threadId]

\* C22 as stated: generateTitle never throws; it returns the cached title
\* without calling the agent, else the usable generated title, else the
\* user message cut to 35 characters plus '...'; the title has at most 50
\* characters, and every newly computed title is in the cache afterwards.
C22_Title ==
    \A k \in DOMAIN titleCalls :
        LET c == titleCalls[k]
        IN  /\ ~c.threw
            /\ Len(c.returned) <= TitleMax
            /\ CacheHit(c) => (c.returned = c.cached /\ ~c.agentCalled)
            /\ (~CacheHit(c) /\ Usable(c)) => c.returned = ResponseTitle(c.response)
            /\ (~CacheHit(c) /\ ~Usable(c)) => c.returned = CutPlusDots(c.userMessage)
            /\ ~CacheHit(c) => CacheAfter(k) = c.returned

\* C22, amended: the fallback of a message of at most 35 characters is the
\* message itself; a title computed after the agent call resolved is in the
\* cache afterwards, while the fallback returned after a rejected call
\* leaves the cache as it was.
C22_TitleAmended ==
    \A k \in DOMAIN titleCalls :
        LET c == titleCalls[k]
        IN  /\ ~c.threw
            /\ Len(c.returned) <= TitleMax
            /\ CacheHit(c) => (c.returned = c.cached /\ ~c.agentCalled)
            /\ (~CacheHit(c) /\ Usable(c)) => c.returned = ResponseTitle(c.response)
            /\ (~CacheHit(c) /\ ~Usable(c)) =>
                   c.returned = IF Len(c.userMessage) > TitleCut
                                THEN CutPlusDots(c.userMessage)
                                ELSE c.userMessage
            /\ (~CacheHit(c) /\ c.response # Rejected) => CacheAfter(k) = c.returned
            /\ (CacheHit(c) \/ c.response = Rejected) => CacheAfter(k) = c.cached

\* A short message got itself as the title after the agent call was
\* rejected, nothing was cached, and the next call for the thread generated
\* a title and cached it.
C22_Witness ==
    /\ Len(titleCalls) = 2
    /\ titleCalls[1].threadId = titleCalls[2].threadId
    /\ titleCalls[1].response = Rejected
    /\ titleCalls[1].returned = Letters(3)
    /\ titleCalls[2].cached = NoCachedTitle
    /\ titleCalls[2].returned = << "T" >>
    /\ titleCache[titleCalls[2].threadId] = << "T" >>

\* A step in which the page sends a message: the hook shows a new user
\* message.
MessageSent ==
    /\ Len(messages') = Len(messages) + 1
    /\ messages'[Len(messages')].role = "user"

\* C25: the page sends a message only when the input is not blank, no
\* response is running and a thread id is set; so a message is sent only
\* when no turn of the page is in flight (turns go out one at a time, in the
\* order they were submitted), and it is the text of the input box.
C25_OneTurnInFlight ==
    /\ [](turn # "idle" => isRunning)
    /\ [][MessageSent =>
             /\ Trim(input) # << >>
             /\ ~isRunning
             /\ threadId # NullThread
             /\ turn = "idle"
             /\ turn' = "sending"
             /\ question' = input
             /\ messages' = Append(messages, UserMessage(input))]_vars

\* A second message is on its way after the first turn has ended.
C25_Witness ==
    /\ Len(outcomes) = 1
    /\ turn = "sending"
    /\ isRunning
    /\ threadId # NullThread

\* C27: once the mount effect's loadThread has finished on a page that is
\* still mounted and the loading indicator is cleared, the page has a thread
\* id, whatever the server answered.
C27_ThreadIdAfterLoad ==
    (isMounted /\ pcLoad = "done" /\ ~isLoadingHistory) => threadId # NullThread

\* C28: on a mounted page a thread id that is set is the one stored under
\* berkshire_thread_id, after any sequence of mount load, new chat, thread
\* switch and thread deletion.
C28_ThreadIdIsStored ==
    (isMounted /\ threadId # NullThread) => threadId = storedThread

\* A step in which a handleSwitchThread call settles.
SwitchSettled == switching' # switching /\ switching' \subseteq switching

\* The answers after which a switch has failed: the fetch threw, or
\* returned no message list.
SwitchFailures == {"throws", "null", "nomessages"}

\* C29: on a mounted page, a switch that fails changes neither the thread
\* id, the stored thread id nor the messages shown; a switch that succeeds
\* sets the three to the thread switched to and the messages fetched for
\* it; and either way the loading indicator is cleared.
C29_SwitchFrame ==
    [][(isMounted /\ SwitchSettled) =>
          LET id == CHOOSE i \in switching : i \notin switching'
              res == lastSwitch'
          IN  /\ isLoadingHistory' = FALSE
              /\ IF res.kind \in SwitchFailures
                 THEN UNCHANGED << threadId, storedThread, messages >>
                 ELSE /\ threadId' = id
                      /\ storedThread' = id
                      /\ messages' = res.messages]_vars

\* A switch to thread 12 succeeded and a later switch failed: the page
\* still shows thread 12.
C29_Witness ==
    /\ isMounted
    /\ storedThreadId # 12
    /\ lastSwitch.kind \in SwitchFailures
    /\ switching = {}
    /\ threadId = 12
    /\ storedThread = 12
    /\ messages = History(12)
    /\ ~isLoadingHistory

\* C30: after the page is unmounted, a step of loadThread sets no thread
\* id, no messages, no thread list and no loading flag, and writes nothing
\* to localStorage.
C30_NoChangeAfterUnmount ==
    [][(~isMounted /\ pcLoad' # pcLoad) =>
          UNCHANGED << threadId, messages, allThreads, isLoadingHistory,
                       storedThread, uuids >>]_vars

\* loadThread ran to its end after the unmount, on the path that creates a
\* thread on a mounted page: nothing was created.
C30_Witness ==
    /\ ~isMounted
    /\ pcLoad = "done"
    /\ storedThreadId = NullThread
    /\ threadId = NullThread
    /\ storedThread = NullThread
    /\ isLoadingHistory

====
